---- MODULE Spec2Model ----
(***************************************************************************)
(* Model of the batch iptables provider (package provider, BatchProvider). *)
(* Strings are sequences of one-character strings, so that strings.Join    *)
(* and fmt.Fprintf are computed and not assumed.                           *)
(***************************************************************************)
EXTENDS Integers, Sequences, FiniteSets, TLC

\* ---------------------------------------------------------------- bounds
\* Append and Insert are called while the store holds fewer than MaxRules rules
MaxRules == 3

\* ---------------------------------------------------------------- strings
nat == <<"n", "a", "t">>
mangle == <<"m", "a", "n", "g", "l", "e">>
PREROUTING == <<"P", "R", "E", "R", "O", "U", "T", "I", "N", "G">>
OUTPUT == <<"O", "U", "T", "P", "U", "T">>

tok_j == <<"-", "j">>
tok_DNAT == <<"D", "N", "A", "T">>
tok_p == <<"-", "p">>
tok_tcp == <<"t", "c", "p">>
tok_p_tcp == <<"-", "p", " ", "t", "c", "p">>

\* the placeholder Insert appends before it shifts the tail
newvalue == <<"n", "e", "w", "v", "a", "l", "u", "e">>

Tables == {nat, mangle}
RuleSpecs == {<<tok_j, tok_DNAT>>, <<tok_p, tok_tcp>>, <<tok_p_tcp>>}
Positions == -1 .. MaxRules

\* the batchTables argument of the constructor
BatchTableInputs == {<<>>, <<nat>>, <<nat, mangle>>}

\* the (table, chain) arguments of the calls
Targets == {<<nat, PREROUTING>>, <<nat, OUTPUT>>, <<mangle, PREROUTING>>}

\* results of the downstream iptables implementation and of the commit function
IptErrors == {"nil", "iptErr"}
CommitErrors == {"nil", "commitErr"}
ListResults == {<<>>, <<PREROUTING>>}

\* ---------------------------------------------------------------- state
VARIABLES
    batchTables,   \* b.batchTables: the set of keys of the map
    rules,         \* b.rules: TABLE -> CHAIN -> RULES
    call,          \* the operation called last and its arguments
    ret,           \* what that operation returned
    iptCalls,      \* the calls made on b.ipt while serving it, with their results
    commitCalls,   \* the calls made on b.commitFunc while serving it
    ctor,          \* the constructor that built the provider, and its probe of the tool
    sock,          \* the connection the listener accepted last, and the kernel's view of it
    accRet,        \* what Accept returned for it
    queries,       \* the original-destination queries made while serving that Accept
    lock,          \* the holder of the provider's mutex, or NoOne
    pc,            \* where each concurrent caller stands in its current call
    progs,         \* the calls each concurrent caller still has to make
    tmp,           \* each concurrent caller's local view of the chain it works on
    allocator,     \* the port allocator New returned: its channel, size and start
    held,          \* the ports each caller was handed by Allocate and has not released
    portLog        \* the sends and receives on the channel, in the order they were made

providerVars == <<batchTables, rules, call, ret, iptCalls, commitCalls>>
ctorVars == <<ctor>>
connVars == <<sock, accRet, queries>>
concVars == <<lock, pc, progs, tmp>>
portVars == <<allocator, held, portLog>>

\* what the calls of a single caller on the provider leave alone
outside == <<ctorVars, connVars, concVars, portVars>>

vars == <<providerVars, ctorVars, connVars, concVars, portVars>>

\* ---------------------------------------------------------------- helpers
EmptyMap == <<>>

HasKey(m, k) == k \in DOMAIN m

MapSet(m, k, v) == [x \in (DOMAIN m) \cup {k} |-> IF x = k THEN v ELSE m[x]]

MapDelete(m, k) == [x \in (DOMAIN m) \ {k} |-> m[x]]

\* the tokens put together without a separator
RECURSIVE Join_noSpace(_)
Join_noSpace(rulespec) ==
    IF rulespec = <<>> THEN <<>>
    ELSE rulespec[1] \o Join_noSpace(Tail(rulespec))

\* strings.Join(rulespec, " ")
RECURSIVE Join(_)
Join(rulespec) ==
    IF rulespec = <<>> THEN <<>>
    ELSE IF Len(rulespec) = 1 THEN rulespec[1]
    ELSE rulespec[1] \o <<" ">> \o Join(Tail(rulespec))

\* the number of rules held by the store
RECURSIVE SumLen(_, _)
SumLen(m, ks) ==
    IF ks = {} THEN 0
    ELSE LET k == CHOOSE x \in ks : TRUE
         IN Len(m[k]) + SumLen(m, ks \ {k})

RECURSIVE TotalRules(_, _)
TotalRules(r, ts) ==
    IF ts = {} THEN 0
    ELSE LET t == CHOOSE x \in ts : TRUE
         IN SumLen(r[t], DOMAIN r[t]) + TotalRules(r, ts \ {t})

\* the orders in which a range over a map with the keys S can visit them
RECURSIVE Orders(_)
Orders(S) ==
    IF S = {} THEN {<<>>}
    ELSE UNION {{<<k>> \o o : o \in Orders(S \ {k})} : k \in S}

NoCall == [op |-> "none", table |-> <<>>, chain |-> <<>>, pos |-> 0, rulespec |-> <<>>]

Call(op, table, chain, pos, rulespec) ==
    [op |-> op, table |-> table, chain |-> chain, pos |-> pos, rulespec |-> rulespec]

IptCall(c, err, chains) ==
    [op |-> c.op, table |-> c.table, chain |-> c.chain, pos |-> c.pos,
     rulespec |-> c.rulespec, err |-> err, chains |-> chains]

Ret(err, val) == [err |-> err, val |-> val]

\* the chain's list, empty when the table or the chain has no entry
ChainOf(r, table, chain) ==
    IF HasKey(r, table) /\ HasKey(r[table], chain) THEN r[table][chain] ELSE <<>>

\* the lazy creation of the table and chain entries
Ensure(r, table, chain) ==
    LET r1 == IF HasKey(r, table) THEN r ELSE MapSet(r, table, EmptyMap)
    IN IF HasKey(r1[table], chain) THEN r1
       ELSE MapSet(r1, table, MapSet(r1[table], chain, <<>>))

\* the assignment replacing the table's map by one holding only the chain
SetChain_dropsSiblings(r, table, chain, list) ==
    MapSet(r, table, [x \in {chain} |-> list])

\* b.rules[table][chain] = list
SetChain(r, table, chain, list) == MapSet(r, table, MapSet(r[table], chain, list))

\* ---------------------------------------------------------------- constructor
\* the keys of batchTablesMap after the loop over the argument
NewCustomBatchProvider(tables) == {tables[i] : i \in 1 .. Len(tables)}

\* ---- the parts of the state a specification does not exercise
NoOne == 0

\* a provider built by NewCustomBatchProvider: no probe was made
CustomCtor == [kind |-> "custom", err |-> "nil", exec |-> "none", out |-> <<>>,
               version |-> <<>>, hasWait |-> "none", requested |-> <<>>]

NoLocal == [ip |-> <<>>, port |-> 0]

NoSock == [accepted |-> FALSE, tcp |-> FALSE, open |-> FALSE, local |-> NoLocal]

NilConn == [isNil |-> TRUE, originalIP |-> <<>>, originalPort |-> 0,
            originalTCPConnection |-> "nil"]

NoAccept == [conn |-> NilConn, err |-> "none"]

ConnIdle == sock = NoSock /\ accRet = NoAccept /\ queries = <<>>

ConcIdle == lock = NoOne /\ pc = <<>> /\ progs = <<>> /\ tmp = <<>>

\* no port allocator was built
NoAllocator == [isNil |-> TRUE, allocate |-> <<>>, portNum |-> 0, size |-> 0, start |-> 0]

PortsIdle == allocator = NoAllocator /\ held = <<>> /\ portLog = <<>>

\* the provider before its first call
Fresh ==
    /\ rules = EmptyMap
    /\ call = NoCall
    /\ ret = Ret("nil", <<>>)
    /\ iptCalls = <<>>
    /\ commitCalls = <<>>

Init ==
    /\ \E tables \in BatchTableInputs :
          /\ batchTables = NewCustomBatchProvider(tables)
          /\ ctor = [CustomCtor EXCEPT !.requested = tables]
    /\ Fresh
    /\ PortsIdle
    /\ ConnIdle
    /\ ConcIdle

\* forwarding the joined rule as one token instead of the caller's tokens
Forward_joined(c, err, chains, val) ==
    /\ iptCalls' = <<IptCall([c EXCEPT !.rulespec =
                                 IF c.rulespec = <<>> THEN <<>> ELSE <<Join(c.rulespec)>>],
                             err, chains)>>
    /\ ret' = Ret(err, val)
    /\ commitCalls' = <<>>
    /\ UNCHANGED <<batchTables, rules, outside>>

\* forwarding and dropping the error of the downstream call
Forward_swallow(c, err, chains, val) ==
    /\ iptCalls' = <<IptCall(c, err, chains)>>
    /\ ret' = Ret("nil", val)
    /\ commitCalls' = <<>>
    /\ UNCHANGED <<batchTables, rules, outside>>

\* forwarding, and taking the table into the batch set for the calls to come
Forward_learnsTable(c, err, chains, val) ==
    /\ iptCalls' = <<IptCall(c, err, chains)>>
    /\ ret' = Ret(err, val)
    /\ commitCalls' = <<>>
    /\ batchTables' = batchTables \cup {c.table}
    /\ UNCHANGED <<rules, outside>>

\* the call to b.ipt of an operation on a table that is not batched
Forward(c, err, chains, val) ==
    /\ iptCalls' = <<IptCall(c, err, chains)>>
    /\ ret' = Ret(err, val)
    /\ commitCalls' = <<>>
    /\ UNCHANGED <<batchTables, rules, outside>>

\* an operation served from the cache
Cached(newRules, err) ==
    /\ rules' = newRules
    /\ ret' = Ret(err, <<>>)
    /\ iptCalls' = <<>>
    /\ commitCalls' = <<>>
    /\ UNCHANGED <<batchTables, outside>>

\* ---------------------------------------------------------------- Append
\* Append without the test of the batch set: every table is cached
ProviderAppend_alwaysCached(table, chain, rulespec) ==
    /\ call' = Call("Append", table, chain, 0, rulespec)
    /\ LET r1 == Ensure(rules, table, chain)
           rule == Join(rulespec)
       IN Cached(SetChain(r1, table, chain, Append(r1[table][chain], rule)), "nil")

ProviderAppend(table, chain, rulespec) ==
    /\ call' = Call("Append", table, chain, 0, rulespec)
    /\ IF table \notin batchTables
       THEN \E err \in IptErrors : Forward(call', err, <<>>, <<>>)
       ELSE LET r1 == Ensure(rules, table, chain)
                rule == Join(rulespec)
            IN Cached(SetChain(r1, table, chain, Append(r1[table][chain], rule)), "nil")

\* ---------------------------------------------------------------- Insert
\* copy(s[d:], s[f:]) on the slice s (offsets counted from 0): the elements
\* are moved as by memmove, min(len(dst), len(src)) of them
GoCopy(s, d, f) ==
    LET n == IF Len(s) - d < Len(s) - f THEN Len(s) - d ELSE Len(s) - f
    IN [i \in 1 .. Len(s) |-> IF i > d /\ i <= d + n THEN s[f + (i - d)] ELSE s[i]]

\* Insert storing the rule one slot too early after the shift
InsertRule_offByOne(list, pos, rule) ==
    IF pos = 1 THEN [list |-> <<rule>> \o list, err |-> "nil"]
    ELSE IF pos > Len(list) THEN [list |-> Append(list, rule), err |-> "nil"]
    ELSE LET s1 == Append(list, newvalue)
         IN IF pos - 1 < 0 \/ pos - 2 < 0
            THEN [list |-> s1, err |-> "panic"]
            ELSE [list |-> [GoCopy(s1, pos - 1, pos - 2) EXCEPT ![pos - 1] = rule],
                  err |-> "nil"]

\* Insert treating position 1 as a position counted from 0
InsertRule_zeroBased(list, pos, rule) ==
    IF pos = 0 THEN [list |-> <<rule>> \o list, err |-> "nil"]
    ELSE IF pos > Len(list) THEN [list |-> Append(list, rule), err |-> "nil"]
    ELSE LET s1 == Append(list, newvalue)
         IN IF pos - 1 < 0 \/ pos - 2 < 0
            THEN [list |-> s1, err |-> "panic"]
            ELSE [list |-> [GoCopy(s1, pos - 1, pos - 2) EXCEPT ![pos] = rule],
                  err |-> "nil"]

\* Insert without the branch for a position beyond the end of the list: the
\* slice expression s[pos-1:] panics when pos - 1 exceeds the length
InsertRule_noAppendBranch(list, pos, rule) ==
    IF pos = 1 THEN [list |-> <<rule>> \o list, err |-> "nil"]
    ELSE LET s1 == Append(list, newvalue)
         IN IF pos - 1 < 0 \/ pos - 2 < 0 \/ pos - 1 > Len(s1)
            THEN [list |-> s1, err |-> "panic"]
            ELSE [list |-> [GoCopy(s1, pos - 1, pos - 2) EXCEPT ![pos] = rule],
                  err |-> "nil"]

\* the three branches of Insert on the chain's list; a slice expression with
\* a negative bound panics after the placeholder was appended and stored
InsertRule(list, pos, rule) ==
    IF pos = 1 THEN [list |-> <<rule>> \o list, err |-> "nil"]
    ELSE IF pos > Len(list) THEN [list |-> Append(list, rule), err |-> "nil"]
    ELSE LET s1 == Append(list, newvalue)
         IN IF pos - 1 < 0 \/ pos - 2 < 0
            THEN [list |-> s1, err |-> "panic"]
            ELSE [list |-> [GoCopy(s1, pos - 1, pos - 2) EXCEPT ![pos] = rule],
                  err |-> "nil"]

Insert(table, chain, pos, rulespec) ==
    /\ call' = Call("Insert", table, chain, pos, rulespec)
    /\ IF table \notin batchTables
       THEN \E err \in IptErrors : Forward(call', err, <<>>, <<>>)
       ELSE LET r1 == Ensure(rules, table, chain)
                rule == Join(rulespec)
                res == InsertRule(r1[table][chain], pos, rule)
            IN Cached(SetChain(r1, table, chain, res.list), res.err)

\* ---------------------------------------------------------------- Delete
\* the index (from 1) of the first element the range loop finds equal to rule,
\* 0 when the loop ends without a match
FirstIndex(list, rule) ==
    IF \E i \in 1 .. Len(list) : list[i] = rule
    THEN CHOOSE i \in 1 .. Len(list) :
            /\ list[i] = rule
            /\ \A j \in 1 .. (i - 1) : list[j] # rule
    ELSE 0

\* Delete without the break: every match is removed
DeleteRule_everyMatch(list, rule) == SelectSeq(list, LAMBDA r : r # rule)

\* Delete dropping the last element of the list when the rule is found
DeleteRule_removesLast(list, rule) ==
    IF FirstIndex(list, rule) = 0 THEN list ELSE SubSeq(list, 1, Len(list) - 1)

\* the switch on the index of the match (index counted from 0 in the code)
DeleteRule(list, rule) ==
    LET i == FirstIndex(list, rule)
        index == i - 1
    IN IF i = 0 THEN list
       ELSE IF index = 0
            THEN IF Len(list) = 1 THEN <<>> ELSE SubSeq(list, 2, Len(list))
       ELSE IF index = Len(list) - 1
            THEN SubSeq(list, 1, index)
       ELSE SubSeq(list, 1, index) \o SubSeq(list, index + 2, Len(list))

\* Delete creating the entries as Append and Insert do
Delete_lazyCreate(table, chain, rulespec) ==
    /\ call' = Call("Delete", table, chain, 0, rulespec)
    /\ IF table \notin batchTables
       THEN \E err \in IptErrors : Forward(call', err, <<>>, <<>>)
       ELSE LET r1 == Ensure(rules, table, chain)
            IN Cached(SetChain(r1, table, chain,
                               DeleteRule(r1[table][chain], Join(rulespec))), "nil")

Delete(table, chain, rulespec) ==
    /\ call' = Call("Delete", table, chain, 0, rulespec)
    /\ IF table \notin batchTables
       THEN \E err \in IptErrors : Forward(call', err, <<>>, <<>>)
       ELSE IF ~HasKey(rules, table) THEN Cached(rules, "nil")
       ELSE IF ~HasKey(rules[table], chain) THEN Cached(rules, "nil")
       ELSE Cached(SetChain(rules, table, chain,
                            DeleteRule(rules[table][chain], Join(rulespec))), "nil")

\* ---------------------------------------------------------------- ListChains
\* ListChains answering for a batch table from the chains of the cache
ListChains_fromCache(table) ==
    /\ call' = Call("ListChains", table, <<>>, 0, <<>>)
    /\ IF table \in batchTables
       THEN /\ ret' = Ret("nil", IF HasKey(rules, table)
                                  THEN CHOOSE o \in Orders(DOMAIN rules[table]) : TRUE
                                  ELSE <<>>)
            /\ iptCalls' = <<>>
            /\ commitCalls' = <<>>
            /\ UNCHANGED <<batchTables, rules, outside>>
       ELSE \E err \in IptErrors, chains \in ListResults :
               /\ err = "nil" \/ chains = <<>>
               /\ Forward(call', err, chains, chains)

ListChains(table) ==
    /\ call' = Call("ListChains", table, <<>>, 0, <<>>)
    /\ \E err \in IptErrors, chains \in ListResults :
          /\ err = "nil" \/ chains = <<>>
          /\ Forward(call', err, chains, chains)

\* ---------------------------------------------------------------- ClearChain
\* ClearChain creating the entries that are missing
ClearChain_lazyCreate(table, chain) ==
    /\ call' = Call("ClearChain", table, chain, 0, <<>>)
    /\ IF table \notin batchTables
       THEN \E err \in IptErrors : Forward(call', err, <<>>, <<>>)
       ELSE Cached(SetChain(Ensure(rules, table, chain), table, chain, <<>>), "nil")

ClearChain(table, chain) ==
    /\ call' = Call("ClearChain", table, chain, 0, <<>>)
    /\ IF table \notin batchTables
       THEN \E err \in IptErrors : Forward(call', err, <<>>, <<>>)
       ELSE IF ~HasKey(rules, table) THEN Cached(rules, "nil")
       ELSE IF ~HasKey(rules[table], chain) THEN Cached(rules, "nil")
       ELSE Cached(SetChain(rules, table, chain, <<>>), "nil")

\* ---------------------------------------------------------------- DeleteChain
\* DeleteChain emptying the chain and keeping its entry
DeleteChain_keepsEntry(table, chain) ==
    /\ call' = Call("DeleteChain", table, chain, 0, <<>>)
    /\ IF table \notin batchTables
       THEN \E err \in IptErrors : Forward(call', err, <<>>, <<>>)
       ELSE IF ~HasKey(rules, table) THEN Cached(rules, "nil")
       ELSE IF ~HasKey(rules[table], chain) THEN Cached(rules, "nil")
       ELSE Cached(SetChain(rules, table, chain, <<>>), "nil")

DeleteChain(table, chain) ==
    /\ call' = Call("DeleteChain", table, chain, 0, <<>>)
    /\ IF table \notin batchTables
       THEN \E err \in IptErrors : Forward(call', err, <<>>, <<>>)
       ELSE IF ~HasKey(rules, table) THEN Cached(rules, "nil")
       ELSE Cached(MapSet(rules, table, MapDelete(rules[table], chain)), "nil")

\* ---------------------------------------------------------------- NewChain
\* NewChain creating the table entry only
NewChain_tableOnly(table, chain) ==
    /\ call' = Call("NewChain", table, chain, 0, <<>>)
    /\ IF table \notin batchTables
       THEN \E err \in IptErrors : Forward(call', err, <<>>, <<>>)
       ELSE Cached(IF HasKey(rules, table) THEN rules ELSE MapSet(rules, table, EmptyMap),
                   "nil")

NewChain(table, chain) ==
    /\ call' = Call("NewChain", table, chain, 0, <<>>)
    /\ IF table \notin batchTables
       THEN \E err \in IptErrors : Forward(call', err, <<>>, <<>>)
       ELSE LET r1 == IF HasKey(rules, table) THEN rules
                      ELSE MapSet(rules, table, EmptyMap)
            IN Cached(SetChain(r1, table, chain, <<>>), "nil")

\* ---------------------------------------------------------------- RetrieveTable
\* RetrieveTable returning a copy that leaves out the chains without rules
RetrieveTable_nonEmptyChains ==
    /\ call' = Call("RetrieveTable", <<>>, <<>>, 0, <<>>)
    /\ ret' = Ret("nil", [t \in DOMAIN rules |->
                            [c \in {x \in DOMAIN rules[t] : rules[t][x] # <<>>} |->
                                rules[t][c]]])
    /\ iptCalls' = <<>>
    /\ commitCalls' = <<>>
    /\ UNCHANGED <<batchTables, rules, outside>>

RetrieveTable ==
    /\ call' = Call("RetrieveTable", <<>>, <<>>, 0, <<>>)
    /\ ret' = Ret("nil", rules)
    /\ iptCalls' = <<>>
    /\ commitCalls' = <<>>
    /\ UNCHANGED <<batchTables, rules, outside>>

\* ---------------------------------------------------------------- Commit
\* fmt.Fprintf(buf, "*%s\n", table)
TableLine(table) == <<"*">> \o table \o <<"\n">>

\* fmt.Fprintf(buf, ":%s - [0:0]\n", chain)
ChainLine(chain) == <<":">> \o chain \o <<" ", "-", " ", "[", "0", ":", "0", "]", "\n">>

\* fmt.Fprintf(buf, "-A %s %s\n", chain, rule)
RuleLine(chain, rule) == <<"-", "A", " ">> \o chain \o <<" ">> \o rule \o <<"\n">>

\* fmt.Fprintf(buf, "COMMIT\n")
CommitLine == <<"C", "O", "M", "M", "I", "T", "\n">>

\* the first loop over the chains of a table, visiting them in the order o
RECURSIVE ChainLines(_)
ChainLines(o) ==
    IF o = <<>> THEN <<>> ELSE ChainLine(Head(o)) \o ChainLines(Tail(o))

\* the inner loop writing the rules of a chain last to first
RECURSIVE RuleLines_reversed(_, _)
RuleLines_reversed(chain, list) ==
    IF list = <<>> THEN <<>>
    ELSE RuleLines_reversed(chain, Tail(list)) \o RuleLine(chain, Head(list))

\* the inner loop over the rules of one chain
RECURSIVE RuleLines(_, _)
RuleLines(chain, list) ==
    IF list = <<>> THEN <<>>
    ELSE RuleLine(chain, Head(list)) \o RuleLines(chain, Tail(list))

\* the second loop over the chains of a table, visiting them in the order o
RECURSIVE ChainRuleLines(_, _)
ChainRuleLines(chains, o) ==
    IF o = <<>> THEN <<>>
    ELSE RuleLines(Head(o), chains[Head(o)]) \o ChainRuleLines(chains, Tail(o))

\* the two loops over the chains in the other order: rules, then declarations
Stanza_rulesFirst(table, chains, o1, o2) ==
    TableLine(table) \o ChainRuleLines(chains, o2) \o ChainLines(o1) \o CommitLine

\* the body of the loop over the tables, for one table
Stanza(table, chains, o1, o2) ==
    TableLine(table) \o ChainLines(o1) \o ChainRuleLines(chains, o2) \o CommitLine

\* the buffers the loop over the tables can write, visiting them in the order o
RECURSIVE Buffers(_, _)
Buffers(r, o) ==
    IF o = <<>> THEN {<<>>}
    ELSE {Stanza(Head(o), r[Head(o)], o1, o2) \o rest :
            o1 \in Orders(DOMAIN r[Head(o)]),
            o2 \in Orders(DOMAIN r[Head(o)]),
            rest \in Buffers(r, Tail(o))}

\* the buffers createDataBuffer can return for the store r: Go leaves the
\* iteration order of each range over a map unspecified
createDataBuffer(r) == UNION {Buffers(r, o) : o \in Orders(DOMAIN r)}

\* Commit calling the commit function a second time after a failure
CommitInvocations_retry(buf, err) ==
    IF err = "nil" THEN <<[buf |-> buf, err |-> err]>>
    ELSE <<[buf |-> buf, err |-> err], [buf |-> buf, err |-> err]>>

\* the calls of b.commitFunc made by Commit for the buffer buf
CommitInvocations(buf, err) == <<[buf |-> buf, err |-> err]>>

\* Commit without the test for an empty batch set
Commit_noEmptyTest ==
    /\ call' = Call("Commit", <<>>, <<>>, 0, <<>>)
    /\ \E buf \in createDataBuffer(rules), err \in CommitErrors :
          /\ commitCalls' = CommitInvocations(buf, err)
          /\ ret' = Ret(commitCalls'[Len(commitCalls')].err, <<>>)
    /\ iptCalls' = <<>>
    /\ UNCHANGED <<batchTables, rules, outside>>

\* Commit emptying the store once the commit function has succeeded
Commit_clearsStore ==
    /\ call' = Call("Commit", <<>>, <<>>, 0, <<>>)
    /\ IF Cardinality(batchTables) = 0
       THEN /\ ret' = Ret("nil", <<>>)
            /\ commitCalls' = <<>>
            /\ rules' = rules
       ELSE \E buf \in createDataBuffer(rules), err \in CommitErrors :
               /\ commitCalls' = CommitInvocations(buf, err)
               /\ ret' = Ret(commitCalls'[Len(commitCalls')].err, <<>>)
               /\ rules' = IF err = "nil" THEN EmptyMap ELSE rules
    /\ iptCalls' = <<>>
    /\ UNCHANGED <<batchTables, outside>>

Commit ==
    /\ call' = Call("Commit", <<>>, <<>>, 0, <<>>)
    /\ IF Cardinality(batchTables) = 0
       THEN /\ ret' = Ret("nil", <<>>)
            /\ commitCalls' = <<>>
       ELSE \E buf \in createDataBuffer(rules), err \in CommitErrors :
               /\ commitCalls' = CommitInvocations(buf, err)
               /\ ret' = Ret(commitCalls'[Len(commitCalls')].err, <<>>)
    /\ iptCalls' = <<>>
    /\ UNCHANGED <<batchTables, rules, outside>>

\* ---------------------------------------------------------------- next state
CanGrow == TotalRules(rules, DOMAIN rules) < MaxRules

\* there is a provider (the constructor returned one) and no panic has ended
\* the process
Running == ctor.err = "nil" /\ ret.err # "panic"

Next ==
    \/ \E tc \in Targets, rs \in RuleSpecs :
          Running /\ CanGrow /\ ProviderAppend(tc[1], tc[2], rs)
    \/ \E tc \in Targets, pos \in Positions, rs \in RuleSpecs :
          Running /\ CanGrow /\ Insert(tc[1], tc[2], pos, rs)
    \/ \E tc \in Targets, rs \in RuleSpecs : Running /\ Delete(tc[1], tc[2], rs)
    \/ \E t \in Tables : Running /\ ListChains(t)
    \/ \E tc \in Targets : Running /\ ClearChain(tc[1], tc[2])
    \/ \E tc \in Targets : Running /\ DeleteChain(tc[1], tc[2])
    \/ \E tc \in Targets : Running /\ NewChain(tc[1], tc[2])
    \/ Running /\ Commit
    \/ Running /\ RetrieveTable

Spec == Init /\ [][Next]_vars

\* ---------------------------------------------------------------- restoreHasWait
Digit == <<"0", "1", "2", "3", "4", "5", "6", "7", "8", "9">>

IsDigit(ch) == \E d \in 1 .. Len(Digit) : Digit[d] = ch

DigitVal(ch) == (CHOOSE d \in 1 .. Len(Digit) : Digit[d] = ch) - 1

\* the index after the longest run of digits of s that starts at i
RECURSIVE DigitsEnd(_, _)
DigitsEnd(s, i) ==
    IF i <= Len(s) /\ IsDigit(s[i]) THEN DigitsEnd(s, i + 1) ELSE i

\* the index after the longest run of groups (\.[0-9]+) of s that starts at i
RECURSIVE GroupsEnd(_, _)
GroupsEnd(s, i) ==
    IF i + 1 <= Len(s) /\ s[i] = "." /\ IsDigit(s[i + 1])
    THEN GroupsEnd(s, DigitsEnd(s, i + 1))
    ELSE i

\* the index after the match of v([0-9]+(\.[0-9]+)+) that starts at i, 0 when
\* there is none
MatchEnd(s, i) ==
    IF s[i] # "v" THEN 0
    ELSE LET e1 == DigitsEnd(s, i + 1)
             e2 == GroupsEnd(s, e1)
         IN IF e1 > i + 1 /\ e2 > e1 THEN e2 ELSE 0

\* versionMatcher.FindStringSubmatch(string(bytes)): the first group of the
\* leftmost match, <<>> when nothing matches
FindStringSubmatch(s) ==
    LET starts == {i \in 1 .. Len(s) : MatchEnd(s, i) > 0}
    IN IF starts = {} THEN <<>>
       ELSE LET i == CHOOSE k \in starts : \A j \in starts : k <= j
            IN SubSeq(s, i + 1, MatchEnd(s, i) - 1)

\* strconv.ParseInt of a run of digits
RECURSIVE ParseInt(_)
ParseInt(ds) ==
    IF ds = <<>> THEN 0
    ELSE ParseInt(SubSeq(ds, 1, Len(ds) - 1)) * 10 + DigitVal(ds[Len(ds)])

\* the segments of a dotted version, as numbers
RECURSIVE Segments(_)
Segments(str) ==
    LET e == DigitsEnd(str, 1)
    IN IF e > Len(str) THEN <<ParseInt(str)>>
       ELSE <<ParseInt(SubSeq(str, 1, e - 1))>> \o Segments(SubSeq(str, e + 1, Len(str)))

\* version.NewVersion: the segments, filled with zeros up to three
NewVersion(str) ==
    LET segs == Segments(str)
    IN IF Len(segs) >= 3 THEN segs
       ELSE segs \o [i \in 1 .. (3 - Len(segs)) |-> 0]

SegmentAt(v, i) == IF i <= Len(v) THEN v[i] ELSE 0

\* Version.LessThan of two versions without pre-release: the first segment
\* that differs decides, a missing segment counting as zero
LessThan(a, b) ==
    LET n == IF Len(a) > Len(b) THEN Len(a) ELSE Len(b)
    IN \E i \in 1 .. n :
          /\ SegmentAt(a, i) < SegmentAt(b, i)
          /\ \A j \in 1 .. (i - 1) : SegmentAt(a, j) = SegmentAt(b, j)

minimumVersion == NewVersion(<<"1", ".", "6", ".", "2">>)

\* the probe accepting only versions above the minimum
restoreHasWait_strict(exec, out) ==
    IF exec # "ok" THEN FALSE
    ELSE LET match == FindStringSubmatch(out)
         IN IF match = <<>> THEN FALSE
            ELSE LessThan(minimumVersion, NewVersion(match))

\* restoreHasWait for a tool whose run ended exec ("ok" or "fail") with the
\* combined output out
restoreHasWait(exec, out) ==
    IF exec # "ok" THEN FALSE
    ELSE LET match == FindStringSubmatch(out)
         IN IF match = <<>> THEN FALSE
            ELSE ~LessThan(NewVersion(match), minimumVersion)

\* ---- the outputs of the tool the probe is tried on
\* the decimal text of a number below 100
ToDigits(n) ==
    IF n < 10 THEN <<Digit[n + 1]>> ELSE <<Digit[(n \div 10) + 1], Digit[(n % 10) + 1]>>

RECURSIVE Dotted(_)
Dotted(v) ==
    IF Len(v) = 1 THEN ToDigits(v[1]) ELSE ToDigits(v[1]) \o <<".">> \o Dotted(Tail(v))

ToolVersions ==
    {<<a, b>> : a \in {0, 1, 2}, b \in {4, 6, 8, 10}}
    \cup {<<a, b, c>> : a \in {0, 1, 2}, b \in {4, 6, 8, 10}, c \in {0, 1, 2, 3, 21}}
    \cup {<<1, 6, 1, 9>>, <<1, 6, 2, 0>>, <<1, 6, 2, 1>>}

ToolPrefixes == {<<>>, <<"i", "p", "t", " ">>, <<"v", " ">>}

ToolSuffixes == {<<>>, <<" ", "(", "l", ")">>, <<" ", "v", "9", ".", "9">>}

\* outputs without a version token
ToolNoVersion ==
    {<<>>, <<"v", "1">>, <<"1", ".", "6", ".", "2">>, <<"v", "1", ".">>,
     <<"v", ".", "6", ".", "2">>, <<"v", " ", "1", ".", "8">>}

\* a run of the tool: how it ended, its output, and the components of the
\* first version token of the output (<<>> when it has none)
ToolRuns ==
    {[exec |-> x, out |-> pre \o <<"v">> \o Dotted(v) \o suf, version |-> v] :
        x \in {"ok"}, pre \in ToolPrefixes, v \in ToolVersions, suf \in ToolSuffixes}
    \cup {[exec |-> "ok", out |-> o, version |-> <<>>] : o \in ToolNoVersion}
    \cup {[exec |-> "fail", out |-> <<>>, version |-> <<>>],
          [exec |-> "fail", out |-> <<"v", "1", ".", "8", ".", "0">>,
           version |-> <<1, 8, 0>>]}

InitProbe ==
    /\ \E run \in ToolRuns :
          ctor = [kind |-> "probe", err |-> "nil", exec |-> run.exec, out |-> run.out,
                  version |-> run.version, hasWait |-> "none", requested |-> <<>>]
    /\ batchTables = {}
    /\ Fresh
    /\ PortsIdle
    /\ ConnIdle
    /\ ConcIdle

RunProbe ==
    /\ ctor.kind = "probe"
    /\ ctor.hasWait = "none"
    /\ ctor' = [ctor EXCEPT !.hasWait =
                   IF restoreHasWait(ctor.exec, ctor.out) THEN "yes" ELSE "no"]
    /\ UNCHANGED <<providerVars, connVars, concVars, portVars>>

NextProbe == RunProbe

SpecProbe == InitProbe /\ [][NextProbe]_vars

\* ---------------------------------------------------------------- NewGoIPTablesProviderV4
\* the runs of iptables-restore --version the constructor is tried on
ProviderRuns ==
    {run \in ToolRuns :
        \/ run.exec = "fail" /\ run.out # <<>>
        \/ /\ run.exec = "ok"
           /\ run.out \in {<<"v", "1">>, <<"v">> \o Dotted(<<1, 4, 21>>),
                           <<"v">> \o Dotted(<<1, 6, 2>>)}}

\* the constructor filling the batch set whatever the probe said
NewGoIPTablesProviderV4_ignoreProbe(tables, hasWait) ==
    {tables[i] : i \in 1 .. Len(tables)}

\* batchTablesMap of NewGoIPTablesProviderV4, hasWait being the probe's answer
NewGoIPTablesProviderV4(tables, hasWait) ==
    IF hasWait THEN {tables[i] : i \in 1 .. Len(tables)} ELSE {}

InitV4 ==
    /\ \E newErr \in IptErrors, run \in ProviderRuns, tables \in BatchTableInputs :
          IF newErr # "nil"
          THEN /\ ctor = [kind |-> "v4", err |-> newErr, exec |-> "none", out |-> <<>>,
                          version |-> <<>>, hasWait |-> "none", requested |-> tables]
               /\ batchTables = {}
          ELSE /\ ctor = [kind |-> "v4", err |-> "nil", exec |-> run.exec, out |-> run.out,
                          version |-> run.version,
                          hasWait |-> IF restoreHasWait(run.exec, run.out) THEN "yes" ELSE "no",
                          requested |-> tables]
               /\ batchTables =
                     NewGoIPTablesProviderV4(tables, restoreHasWait(run.exec, run.out))
    /\ Fresh
    /\ PortsIdle
    /\ ConnIdle
    /\ ConcIdle

SpecV4 == InitV4 /\ [][Next]_vars

\* ---------------------------------------------------------------- restore
\* the results of running b.restoreCmd --wait on the buffer
RestoreErrors == {"nil", "exit status 1"}

\* restore(buf): nil when the tool succeeded; otherwise the store is
\* serialized again for the log and the tool's error is wrapped
restore(r, buf, err) ==
    IF err = "nil"
    THEN {[buf |-> buf, err |-> "nil", logged |-> FALSE, again |-> <<>>]}
    ELSE {[buf |-> buf, err |-> "Failed to execute iptables-restore", logged |-> TRUE,
           again |-> again] : again \in createDataBuffer(r)}

\* Commit of a provider whose commit function is restore (b.commitFunc = b.restore)
CommitRestore ==
    /\ call' = Call("Commit", <<>>, <<>>, 0, <<>>)
    /\ IF Cardinality(batchTables) = 0
       THEN /\ ret' = Ret("nil", <<>>)
            /\ commitCalls' = <<>>
       ELSE \E buf \in createDataBuffer(rules), err \in RestoreErrors :
               \E done \in restore(rules, buf, err) :
                  /\ commitCalls' = <<done>>
                  /\ ret' = Ret(done.err, <<>>)
    /\ iptCalls' = <<>>
    /\ UNCHANGED <<batchTables, rules, outside>>

\* the constructor found a tool that supports --wait
InitRestore == InitV4 /\ ctor.err = "nil" /\ ctor.hasWait = "yes"

NextRestore ==
    \/ \E tc \in Targets, rs \in RuleSpecs :
          Running /\ CanGrow /\ ProviderAppend(tc[1], tc[2], rs)
    \/ \E tc \in Targets : Running /\ DeleteChain(tc[1], tc[2])
    \/ \E tc \in Targets : Running /\ NewChain(tc[1], tc[2])
    \/ Running /\ CommitRestore

SpecRestore == InitRestore /\ [][NextRestore]_vars

\* ---------------------------------------------------------------- sync.Mutex
MaxCalls == 2

Callers == {1, 2}

\* the calls the concurrent callers make, all on one chain of a batch table;
\* the first caller makes up to MaxCalls of them, the second one call fewer
ConcCalls ==
    {Call("Append", nat, PREROUTING, 0, <<tok_j, tok_DNAT>>),
     Call("Insert", nat, PREROUTING, 1, <<tok_p_tcp>>),
     Call("Delete", nat, PREROUTING, 0, <<tok_j, tok_DNAT>>),
     Call("NewChain", nat, PREROUTING, 0, <<>>),
     Call("ClearChain", nat, PREROUTING, 0, <<>>),
     Call("DeleteChain", nat, PREROUTING, 0, <<>>)}

\* the sequences of one to n calls
RECURSIVE Programs(_)
Programs(n) ==
    IF n = 0 THEN {<<>>}
    ELSE LET shorter == Programs(n - 1)
         IN {<<c>> : c \in ConcCalls}
            \cup {Append(prog, c) : prog \in shorter \ {<<>>}, c \in ConcCalls}

\* the store a call on a batch table leaves, r being the store it found
StoreAfter(r, c) ==
    LET r1 == Ensure(r, c.table, c.chain)
        rule == Join(c.rulespec)
        present == HasKey(r, c.table) /\ HasKey(r[c.table], c.chain)
    IN CASE c.op = "Append" ->
               SetChain(r1, c.table, c.chain, Append(r1[c.table][c.chain], rule))
         [] c.op = "Insert" ->
               SetChain(r1, c.table, c.chain, InsertRule(r1[c.table][c.chain], c.pos, rule).list)
         [] c.op = "Delete" ->
               IF present
               THEN SetChain(r, c.table, c.chain, DeleteRule(r[c.table][c.chain], rule))
               ELSE r
         [] c.op = "ClearChain" ->
               IF present THEN SetChain(r, c.table, c.chain, <<>>) ELSE r
         [] c.op = "DeleteChain" ->
               IF HasKey(r, c.table)
               THEN MapSet(r, c.table, MapDelete(r[c.table], c.chain))
               ELSE r
         [] c.op = "NewChain" ->
               SetChain(IF HasKey(r, c.table) THEN r ELSE MapSet(r, c.table, EmptyMap),
                        c.table, c.chain, <<>>)

At(i, where) == pc[i].at = where

\* a Lock that does not wait for the holder
Lock_noExclusion(i) ==
    /\ At(i, "lock")
    /\ lock' = i
    /\ pc' = [pc EXCEPT ![i].at = "read"]
    /\ UNCHANGED <<progs, tmp, providerVars, ctorVars, portVars, connVars>>

\* b.Lock()
Lock(i) ==
    /\ At(i, "lock")
    /\ lock = NoOne
    /\ lock' = i
    /\ pc' = [pc EXCEPT ![i].at = "read"]
    /\ UNCHANGED <<progs, tmp, providerVars, ctorVars, portVars, connVars>>

\* the body reading b.rules
ReadStore(i) ==
    /\ At(i, "read")
    /\ tmp' = [tmp EXCEPT ![i] = rules]
    /\ pc' = [pc EXCEPT ![i].at = "write"]
    /\ UNCHANGED <<lock, progs, providerVars, ctorVars, portVars, connVars>>

\* the body storing into b.rules
WriteStore(i) ==
    /\ At(i, "write")
    /\ rules' = StoreAfter(tmp[i], progs[i][pc[i].k])
    /\ pc' = [pc EXCEPT ![i].at = "unlock"]
    /\ UNCHANGED <<lock, progs, tmp, batchTables, call, ret, iptCalls, commitCalls,
                   ctorVars, portVars, connVars>>

\* the deferred b.Unlock(), and the caller going on to its next call
Unlock(i) ==
    /\ At(i, "unlock")
    /\ lock' = NoOne
    /\ pc' = [pc EXCEPT ![i] = IF pc[i].k = Len(progs[i])
                                 THEN [k |-> pc[i].k, at |-> "done"]
                                 ELSE [k |-> pc[i].k + 1, at |-> "lock"]]
    /\ UNCHANGED <<progs, tmp, providerVars, ctorVars, portVars, connVars>>

InitConc ==
    /\ batchTables = {nat}
    /\ Fresh
    /\ PortsIdle
    /\ ctor = CustomCtor
    /\ ConnIdle
    /\ lock = NoOne
    /\ progs \in {<<a, b>> : a \in Programs(MaxCalls), b \in Programs(MaxCalls - 1)}
    /\ pc = [i \in Callers |-> [k |-> 1, at |-> "lock"]]
    /\ tmp = [i \in Callers |-> EmptyMap]

NextConc ==
    \/ \E i \in Callers : Lock(i)
    \/ \E i \in Callers : ReadStore(i)
    \/ \E i \in Callers : WriteStore(i)
    \/ \E i \in Callers : Unlock(i)

SpecConc == InitConc /\ [][NextConc]_vars

\* ---------------------------------------------------------------- Commit under the mutex
CommitCall == Call("Commit", <<>>, <<>>, 0, <<>>)

\* the call the caller i is making
CurrentCall(i) == progs[i][pc[i].k]

\* the buffers the loops of createDataBuffer write when the loop over the
\* tables and the first loop over the chains see the store r1 and the second
\* loop over the chains sees the store r2
RECURSIVE SplitBuffers(_, _, _)
SplitBuffers(r1, r2, o) ==
    IF o = <<>> THEN {<<>>}
    ELSE LET t == Head(o)
             chains2 == IF HasKey(r2, t) THEN r2[t] ELSE EmptyMap
         IN {Stanza(t, chains2, o1, o2) \o rest :
                o1 \in Orders(DOMAIN r1[t]),
                o2 \in Orders(DOMAIN chains2),
                rest \in SplitBuffers(r1, r2, Tail(o))}

\* createDataBuffer, the table lines and the chain lines being written
SerializeChains(i) ==
    /\ At(i, "read")
    /\ tmp' = [tmp EXCEPT ![i] = rules]
    /\ pc' = [pc EXCEPT ![i].at = "rules"]
    /\ UNCHANGED <<lock, progs, providerVars, ctorVars, portVars, connVars>>

\* createDataBuffer, the rule lines being written
SerializeRules(i) ==
    /\ At(i, "rules")
    /\ \E o \in Orders(DOMAIN tmp[i]) :
          \E buf \in SplitBuffers(tmp[i], rules, o) : tmp' = [tmp EXCEPT ![i] = buf]
    /\ pc' = [pc EXCEPT ![i].at = "invoke"]
    /\ UNCHANGED <<lock, progs, providerVars, ctorVars, portVars, connVars>>

\* Commit releasing the mutex before it calls the commit function
InvokeCommit_unlocksFirst(i) ==
    /\ At(i, "invoke")
    /\ \E err \in CommitErrors :
          /\ commitCalls' = CommitInvocations(tmp[i], err)
          /\ ret' = Ret(err, <<>>)
    /\ call' = CommitCall
    /\ iptCalls' = <<>>
    /\ lock' = NoOne
    /\ pc' = [pc EXCEPT ![i].at = "unlock"]
    /\ UNCHANGED <<progs, tmp, batchTables, rules, ctorVars, portVars, connVars>>

\* return b.commitFunc(buf)
InvokeCommit(i) ==
    /\ At(i, "invoke")
    /\ \E err \in CommitErrors :
          /\ commitCalls' = CommitInvocations(tmp[i], err)
          /\ ret' = Ret(err, <<>>)
    /\ call' = CommitCall
    /\ iptCalls' = <<>>
    /\ pc' = [pc EXCEPT ![i].at = "unlock"]
    /\ UNCHANGED <<lock, progs, tmp, batchTables, rules, ctorVars, portVars, connVars>>

InitCommit ==
    /\ batchTables = {nat}
    /\ Fresh
    /\ PortsIdle
    /\ ctor = CustomCtor
    /\ ConnIdle
    /\ lock = NoOne
    /\ progs \in {<<a, <<CommitCall>>>> : a \in Programs(MaxCalls)}
    /\ pc = [i \in Callers |-> [k |-> 1, at |-> "lock"]]
    /\ tmp = [i \in Callers |-> EmptyMap]

NextCommit ==
    \/ \E i \in Callers : Lock(i)
    \/ \E i \in Callers : CurrentCall(i) # CommitCall /\ ReadStore(i)
    \/ \E i \in Callers : CurrentCall(i) # CommitCall /\ WriteStore(i)
    \/ \E i \in Callers : CurrentCall(i) = CommitCall /\ SerializeChains(i)
    \/ \E i \in Callers : SerializeRules(i)
    \/ \E i \in Callers : InvokeCommit(i)
    \/ \E i \in Callers : Unlock(i)

SpecCommit == InitCommit /\ [][NextCommit]_vars

\* ---------------------------------------------------------------- RetrieveTable under the mutex
RetrieveCall == Call("RetrieveTable", <<>>, <<>>, 0, <<>>)

\* return b.rules: the result is the map the provider keeps, not a copy; ret
\* records what the map holds when the call returns
ReturnStore(i) ==
    /\ At(i, "read")
    /\ call' = RetrieveCall
    /\ ret' = Ret("nil", rules)
    /\ iptCalls' = <<>>
    /\ commitCalls' = <<>>
    /\ pc' = [pc EXCEPT ![i].at = "unlock"]
    /\ UNCHANGED <<lock, progs, tmp, batchTables, rules, ctorVars, portVars, connVars>>

\* what a read of the map can give: the map as it stands, or, when another
\* caller is inside its store (a read racing with a write), the map after
\* that store or a fault of the runtime
ReadOutcomes(i) ==
    {[fault |-> FALSE, val |-> rules]}
    \cup {[fault |-> FALSE, val |-> StoreAfter(tmp[j], CurrentCall(j))] :
            j \in {k \in Callers \ {i} : At(k, "write")}}
    \cup {[fault |-> TRUE, val |-> rules] :
            j \in {k \in Callers \ {i} : At(k, "write")}}

\* the caller reading the map it was handed, after RetrieveTable has returned
\* and released the mutex
ReadReturned(i) ==
    /\ At(i, "done")
    /\ CurrentCall(i) = RetrieveCall
    /\ \E out \in ReadOutcomes(i) : tmp' = [tmp EXCEPT ![i] = out]
    /\ pc' = [pc EXCEPT ![i].at = "used"]
    /\ UNCHANGED <<lock, progs, providerVars, ctorVars, portVars, connVars>>

InitRetrieve ==
    /\ batchTables = {nat}
    /\ Fresh
    /\ PortsIdle
    /\ ctor = CustomCtor
    /\ ConnIdle
    /\ lock = NoOne
    /\ progs \in {<<a, <<RetrieveCall>>>> : a \in Programs(MaxCalls)}
    /\ pc = [i \in Callers |-> [k |-> 1, at |-> "lock"]]
    /\ tmp = [i \in Callers |-> EmptyMap]

NextRetrieve ==
    \/ \E i \in Callers : Lock(i)
    \/ \E i \in Callers : CurrentCall(i) # RetrieveCall /\ ReadStore(i)
    \/ \E i \in Callers : WriteStore(i)
    \/ \E i \in Callers : CurrentCall(i) = RetrieveCall /\ ReturnStore(i)
    \/ \E i \in Callers : Unlock(i)
    \/ \E i \in Callers : ReadReturned(i)

SpecRetrieve == InitRetrieve /\ [][NextRetrieve]_vars

\* ---------------------------------------------------------------- every path to the deferred Unlock
\* the calls of the callers: a mutation of a batch table, a Delete that may
\* find no entry, a call on a table outside the batch set, and Commit; the
\* first caller makes up to MaxCalls of them, the second caller one
LiveCalls ==
    {Call("Append", nat, PREROUTING, 0, <<tok_j, tok_DNAT>>),
     Call("Delete", nat, PREROUTING, 0, <<tok_j, tok_DNAT>>),
     Call("Append", mangle, PREROUTING, 0, <<tok_j, tok_DNAT>>),
     CommitCall}

\* the sequences of one to n of the calls
RECURSIVE ProgramsOf(_, _)
ProgramsOf(calls, n) ==
    IF n = 0 THEN {<<>>}
    ELSE LET shorter == ProgramsOf(calls, n - 1)
         IN {<<c>> : c \in calls}
            \cup {Append(prog, c) : prog \in shorter \ {<<>>}, c \in calls}

\* the test of b.batchTables[table] fails
Direct(i) == CurrentCall(i) # CommitCall /\ CurrentCall(i).table \notin batchTables

\* Delete finds no entry for the table or for the chain
MissingEntry(i) ==
    /\ CurrentCall(i).op = "Delete"
    /\ CurrentCall(i).table \in batchTables
    /\ ~(HasKey(rules, CurrentCall(i).table)
         /\ HasKey(rules[CurrentCall(i).table], CurrentCall(i).chain))

\* the call goes on to read and store into b.rules
Stores(i) == CurrentCall(i) # CommitCall /\ ~Direct(i) /\ ~MissingEntry(i)

\* the early return leaving the function without its deferred Unlock
ForwardDirect_keepsLock(i) ==
    /\ At(i, "read")
    /\ call' = CurrentCall(i)
    /\ \E err \in IptErrors :
          /\ iptCalls' = <<IptCall(call', err, <<>>)>>
          /\ ret' = Ret(err, <<>>)
    /\ commitCalls' = <<>>
    /\ pc' = [pc EXCEPT ![i] = IF pc[i].k = Len(progs[i])
                                 THEN [k |-> pc[i].k, at |-> "done"]
                                 ELSE [k |-> pc[i].k + 1, at |-> "lock"]]
    /\ UNCHANGED <<lock, progs, tmp, batchTables, rules, ctorVars, portVars, connVars>>

\* return b.ipt.Append(table, chain, rulespec...): the downstream call
\* returns, and the function returns its result through the deferred Unlock
ForwardDirect(i) ==
    /\ At(i, "read")
    /\ call' = CurrentCall(i)
    /\ \E err \in IptErrors :
          /\ iptCalls' = <<IptCall(call', err, <<>>)>>
          /\ ret' = Ret(err, <<>>)
    /\ commitCalls' = <<>>
    /\ pc' = [pc EXCEPT ![i].at = "unlock"]
    /\ UNCHANGED <<lock, progs, tmp, batchTables, rules, ctorVars, portVars, connVars>>

\* return nil of Delete when the table or the chain has no entry
ReturnMissing(i) ==
    /\ At(i, "read")
    /\ call' = CurrentCall(i)
    /\ ret' = Ret("nil", <<>>)
    /\ iptCalls' = <<>>
    /\ commitCalls' = <<>>
    /\ pc' = [pc EXCEPT ![i].at = "unlock"]
    /\ UNCHANGED <<lock, progs, tmp, batchTables, rules, ctorVars, portVars, connVars>>

InitLive ==
    /\ batchTables = {nat}
    /\ Fresh
    /\ PortsIdle
    /\ ctor = CustomCtor
    /\ ConnIdle
    /\ lock = NoOne
    /\ progs \in {<<a, b>> : a \in ProgramsOf(LiveCalls, MaxCalls),
                             b \in ProgramsOf(LiveCalls, 1)}
    /\ pc = [i \in Callers |-> [k |-> 1, at |-> "lock"]]
    /\ tmp = [i \in Callers |-> EmptyMap]

NextLive ==
    \/ \E i \in Callers : Lock(i)
    \/ \E i \in Callers : Direct(i) /\ ForwardDirect(i)
    \/ \E i \in Callers : MissingEntry(i) /\ ReturnMissing(i)
    \/ \E i \in Callers : Stores(i) /\ ReadStore(i)
    \/ \E i \in Callers : WriteStore(i)
    \/ \E i \in Callers : CurrentCall(i) = CommitCall /\ SerializeChains(i)
    \/ \E i \in Callers : SerializeRules(i)
    \/ \E i \in Callers : InvokeCommit(i)
    \/ \E i \in Callers : Unlock(i)

\* every caller that can take a step is scheduled in the end, and the calls
\* of the downstream implementation and of the commit function return
FairLive ==
    \A i \in Callers :
        /\ WF_vars(Lock(i))
        /\ WF_vars(Direct(i) /\ ForwardDirect(i))
        /\ WF_vars(MissingEntry(i) /\ ReturnMissing(i))
        /\ WF_vars(Stores(i) /\ ReadStore(i))
        /\ WF_vars(WriteStore(i))
        /\ WF_vars(CurrentCall(i) = CommitCall /\ SerializeChains(i))
        /\ WF_vars(SerializeRules(i))
        /\ WF_vars(InvokeCommit(i))
        /\ WF_vars(Unlock(i))

SpecLive == InitLive /\ [][NextLive]_vars /\ FairLive

\* ---------------------------------------------------------------- markedconn
sockOptOriginalDst == 80

AF_INET == 2

AF_INET6 == 10

SOL_IP == 0

SOL_IPV6 == 41

Zeros(n) == [i \in 1 .. n |-> 0]

\* the bytes of a 16 bit number, most significant first
NetworkOrder(port) == <<port \div 256, port % 256>>

\* struct sockaddr_in as the kernel fills it, read as sockaddr4
KernelSockaddr4(family, dst) ==
    [family |-> family, data |-> NetworkOrder(dst.port) \o dst.ip \o Zeros(8)]

\* struct sockaddr_in6 as the kernel fills it, read as sockaddr6
KernelSockaddr6(family, dst) ==
    [family |-> family, port |-> NetworkOrder(dst.port), flowInfo |-> Zeros(4),
     ip |-> dst.ip, scopeID |-> Zeros(4)]

\* var addr sockaddr4 / sockaddr6: the zero value
ZeroSockaddr(v4Proto) ==
    IF v4Proto THEN [family |-> 0, data |-> Zeros(14)]
    ELSE [family |-> 0, port |-> Zeros(2), flowInfo |-> Zeros(4), ip |-> Zeros(16),
          scopeID |-> Zeros(4)]

\* net.IP.To4() != nil: four bytes, or sixteen with the v4-in-v6 prefix
IsV4(ip) ==
    \/ Len(ip) = 4
    \/ /\ Len(ip) = 16
       /\ \A i \in 1 .. 10 : ip[i] = 0
       /\ ip[11] = 255 /\ ip[12] = 255

Loopback6 == Zeros(15) \o <<1>>

Mapped4 == Zeros(10) \o <<255, 255, 127, 0, 0, 1>>

\* the local addresses of the accepted sockets
Locals ==
    {[ip |-> <<127, 0, 0, 1>>, port |-> 8080], [ip |-> Mapped4, port |-> 8080],
     [ip |-> Loopback6, port |-> 8443]}

Ports == {0, 1, 256, 443, 8080, 65535}

\* the destinations the peers addressed before the redirection
Dsts(v4Proto) ==
    IF v4Proto THEN {[ip |-> a, port |-> pt] : a \in {<<10, 1, 2, 3>>, <<192, 168, 0, 255>>},
                                              pt \in Ports}
    ELSE {[ip |-> a, port |-> pt] :
             a \in {<<32, 1, 13, 184>> \o Zeros(11) \o <<7>>, <<254, 128>> \o Zeros(13) \o <<9>>},
             pt \in Ports}

Families == {0, AF_INET, AF_INET6}

\* the syscall.Errno of the query: none, or ENOPROTOOPT
Errnos == {0, 92}

NoResult(why) == [ip |-> <<>>, port |-> 0, err |-> why]

\* the port read least significant byte first
DecodePort_littleEndian(b) == b[2] * 256 + b[1]

\* int(b[0])<<8 + int(b[1])
DecodePort(b) == b[1] * 256 + b[2]

\* getsockopt4 / getsockopt6: what the callback leaves in netIP, port, err
getsockopt(v4Proto, e1, addr) ==
    IF e1 # 0 THEN NoResult("errno")
    ELSE IF v4Proto
    THEN IF addr.family # AF_INET THEN NoResult("family")
         ELSE [ip |-> SubSeq(addr.data, 3, 6), port |-> DecodePort(addr.data), err |-> "nil"]
    ELSE IF addr.family # AF_INET6 THEN NoResult("family")
         ELSE [ip |-> addr.ip, port |-> DecodePort(addr.port), err |-> "nil"]

\* the resolver taking what the callback left when Control failed
getOriginalDestInternal_ignoreControl(v4Proto, control, e1, addr) ==
    IF control # "ok" THEN [ip |-> <<>>, port |-> 0, err |-> "nil"]
    ELSE getsockopt(v4Proto, e1, addr)

\* getOriginalDestInternal: control is how rawConn.Control ended; a failed
\* Control has not run the callback
getOriginalDestInternal(v4Proto, control, e1, addr) ==
    IF control # "ok" THEN NoResult("control")
    ELSE LET r == getsockopt(v4Proto, e1, addr)
         IN IF r.err # "nil" THEN NoResult(r.err) ELSE r

\* one run of the resolver: its arguments, the query it makes and its result
ResolverCall(v4Proto, control, e1, addr, dst) ==
    [v4Proto |-> v4Proto, control |-> control,
     level |-> IF v4Proto THEN SOL_IP ELSE SOL_IPV6, opt |-> sockOptOriginalDst,
     e1 |-> e1, addr |-> addr, dst |-> dst,
     ret |-> getOriginalDestInternal(v4Proto, control, e1, addr)]

\* &ProxiedConnection{...}
ProxiedConnection(ip, port) ==
    [isNil |-> FALSE, originalIP |-> ip, originalPort |-> port,
     originalTCPConnection |-> "tcpConn"]

\* (p *ProxiedConnection) GetOriginalDestination
ProxiedConnection_GetOriginalDestination(p) == <<p.originalIP, p.originalPort>>

\* (p *ProxiedConnection) LocalAddr
LocalAddr(p) == [IP |-> p.originalIP, Port |-> p.originalPort]

\* Accept handing the connection on whatever the resolver said
AcceptResult_ignoreError(isTCP, res) ==
    IF ~isTCP THEN [conn |-> NilConn, err |-> "notTCP"]
    ELSE [conn |-> ProxiedConnection(res.ip, res.port), err |-> "nil"]

\* what Accept returns for an accepted connection, res being the result of
\* GetOriginalDestination
AcceptResult(isTCP, res) ==
    IF ~isTCP THEN [conn |-> NilConn, err |-> "notTCP"]
    ELSE IF res.err # "nil" THEN [conn |-> NilConn, err |-> res.err]
    ELSE [conn |-> ProxiedConnection(res.ip, res.port), err |-> "nil"]

\* ProxiedListener.Accept
Accept ==
    \E acceptErr \in BOOLEAN :
       IF acceptErr
       THEN /\ sock' = NoSock
            /\ queries' = <<>>
            /\ accRet' = [conn |-> NilConn, err |-> "accept"]
            /\ UNCHANGED <<providerVars, ctorVars, portVars, concVars>>
       ELSE \E isTCP \in BOOLEAN, local \in Locals,
               handle \in {"nil", "syscallConn", "splitHostPort"},
               control \in {"ok", "fail"}, e1 \in Errnos :
            \E family \in Families, dst \in Dsts(IsV4(local.ip)) :
               LET v4Proto == IsV4(local.ip)
                   addr == IF control = "ok" /\ e1 = 0
                           THEN IF v4Proto THEN KernelSockaddr4(family, dst)
                                ELSE KernelSockaddr6(family, dst)
                           ELSE ZeroSockaddr(v4Proto)
                   q == ResolverCall(v4Proto, control, e1, addr, dst)
                   res == IF handle # "nil" THEN NoResult(handle) ELSE q.ret
               IN /\ sock' = [accepted |-> TRUE, tcp |-> isTCP, open |-> TRUE,
                              local |-> local]
                  /\ queries' = IF isTCP /\ handle = "nil" THEN <<q>> ELSE <<>>
                  /\ accRet' = AcceptResult(isTCP, res)
                  /\ UNCHANGED <<providerVars, ctorVars, portVars, concVars>>

\* (p *ProxiedConnection) Close, by the caller that was handed the connection
ProxiedConnection_Close ==
    /\ ~accRet.conn.isNil
    /\ sock.open
    /\ sock' = [sock EXCEPT !.open = FALSE]
    /\ UNCHANGED <<accRet, queries, providerVars, ctorVars, portVars, concVars>>

InitConn ==
    /\ batchTables = {}
    /\ Fresh
    /\ PortsIdle
    /\ ctor = CustomCtor
    /\ ConnIdle
    /\ ConcIdle

NextConn ==
    \/ Accept
    \/ ProxiedConnection_Close

SpecConn == InitConn /\ [][NextConn]_vars

\* ---------------------------------------------------------------- one accept, step by step
Terminal == {"Decoded", "Rejected"}

\* the accept is over with the error why and no connection
Reject(why) ==
    /\ sock' = [sock EXCEPT !.phase = "Rejected"]
    /\ accRet' = [conn |-> NilConn, err |-> why]

\* l.netListener.Accept(), in the loop of the listener's caller
ListenerAccept ==
    /\ sock.phase \in Terminal \cup {"Idle"}
    /\ \E acceptErr \in BOOLEAN, isTCP \in BOOLEAN, local \in Locals :
          IF acceptErr
          THEN /\ sock' = [phase |-> "Idle", tcp |-> FALSE, open |-> FALSE,
                           local |-> NoLocal, family |-> "unknown"]
               /\ accRet' = [conn |-> NilConn, err |-> "accept"]
          ELSE /\ sock' = [phase |-> "Accepted", tcp |-> isTCP, open |-> TRUE,
                           local |-> local, family |-> "unknown"]
               /\ accRet' = NoAccept
    /\ queries' = <<>>
    /\ UNCHANGED <<providerVars, ctorVars, portVars, concVars>>

\* the family taken to be IPv4 whatever the local address is
DetermineFamily_alwaysV4 ==
    /\ sock.phase = "Accepted"
    /\ IF ~sock.tcp THEN Reject("notTCP")
       ELSE \E handle \in {"nil", "syscallConn", "splitHostPort"} :
               IF handle # "nil" THEN Reject(handle)
               ELSE /\ sock' = [sock EXCEPT !.phase = "FamilyDetermined", !.family = "v4"]
                    /\ UNCHANGED accRet
    /\ UNCHANGED <<queries, providerVars, ctorVars, portVars, concVars>>

\* the type assertion of Accept, then GetOriginalDestination up to
\* localIP.To4() != nil
DetermineFamily ==
    /\ sock.phase = "Accepted"
    /\ IF ~sock.tcp THEN Reject("notTCP")
       ELSE \E handle \in {"nil", "syscallConn", "splitHostPort"} :
               IF handle # "nil" THEN Reject(handle)
               ELSE /\ sock' = [sock EXCEPT !.phase = "FamilyDetermined",
                                            !.family = IF IsV4(sock.local.ip) THEN "v4"
                                                       ELSE "v6"]
                    /\ UNCHANGED accRet
    /\ UNCHANGED <<queries, providerVars, ctorVars, portVars, concVars>>

\* rawConn.Control(getsockopt): the query, unless Control fails
IssueQuery ==
    /\ sock.phase = "FamilyDetermined"
    /\ \E control \in {"ok", "fail"}, e1 \in Errnos, family \in Families :
       \E dst \in Dsts(sock.family = "v4") :
          LET v4Proto == sock.family = "v4"
              addr == IF e1 = 0
                      THEN IF v4Proto THEN KernelSockaddr4(family, dst)
                           ELSE KernelSockaddr6(family, dst)
                      ELSE ZeroSockaddr(v4Proto)
          IN IF control # "ok"
             THEN /\ Reject(getOriginalDestInternal(v4Proto, control, 0,
                                                    ZeroSockaddr(v4Proto)).err)
                  /\ UNCHANGED queries
             ELSE /\ queries' = <<ResolverCall(v4Proto, control, e1, addr, dst)>>
                  /\ sock' = [sock EXCEPT !.phase = "QueryIssued"]
                  /\ UNCHANGED accRet
    /\ UNCHANGED <<providerVars, ctorVars, portVars, concVars>>

\* the returns of getOriginalDestInternal, GetOriginalDestination and Accept
Decode ==
    /\ sock.phase = "QueryIssued"
    /\ accRet' = AcceptResult(sock.tcp, queries[1].ret)
    /\ sock' = [sock EXCEPT !.phase = IF accRet'.err = "nil" THEN "Decoded" ELSE "Rejected"]
    /\ UNCHANGED <<queries, providerVars, ctorVars, portVars, concVars>>

InitAccept ==
    /\ batchTables = {}
    /\ Fresh
    /\ PortsIdle
    /\ ctor = CustomCtor
    /\ sock = [phase |-> "Idle", tcp |-> FALSE, open |-> FALSE, local |-> NoLocal,
               family |-> "unknown"]
    /\ accRet = NoAccept
    /\ queries = <<>>
    /\ ConcIdle

NextAccept ==
    \/ ListenerAccept
    \/ DetermineFamily
    \/ IssueQuery
    \/ Decode

SpecAccept == InitAccept /\ [][NextAccept]_vars

\* ---------------------------------------------------------------- marked sockets
Marks == {1, 100, 4096}

SockErrors == {"nil", "EPERM"}

\* one system call on the socket and what it returned
Syscall(name, level, opt, value, res) ==
    [name |-> name, level |-> level, opt |-> opt, value |-> value, res |-> res]

\* the Control hook of the dialer returning the error of the mark
DialControl_strict(control, nonblock, markRes, fastOpen, mark) ==
    IF control # "ok" THEN [err |-> "control", calls |-> <<>>]
    ELSE [err |-> markRes,
          calls |-> <<Syscall("SetNonblock", "none", "none", 0, nonblock),
                      Syscall("SetsockoptInt", "SOL_SOCKET", "SO_MARK", mark, markRes),
                      Syscall("SetsockoptInt", "SOL_TCP", "30", 1, fastOpen)>>]

\* the Control hook of the dialer: the result of c.Control and the calls the
\* callback makes on the descriptor
DialControl(control, nonblock, markRes, fastOpen, mark) ==
    IF control # "ok" THEN [err |-> "control", calls |-> <<>>]
    ELSE [err |-> "nil",
          calls |-> <<Syscall("SetNonblock", "none", "none", 0, nonblock),
                      Syscall("SetsockoptInt", "SOL_SOCKET", "SO_MARK", mark, markRes),
                      Syscall("SetsockoptInt", "SOL_TCP", "30", 1, fastOpen)>>]

\* the Control hook of the listener configuration
ListenControl(control, markRes, fastOpen, mark) ==
    IF control # "ok" THEN [err |-> "control", calls |-> <<>>]
    ELSE [err |-> "nil",
          calls |-> <<Syscall("SetsockoptInt", "SOL_SOCKET", "SO_MARK", mark, markRes),
                      Syscall("SetsockoptInt", "SOL_TCP", "23", 16 * 1024, fastOpen)>>]

\* the mark the kernel holds for the socket after the calls (0 when none set it)
RECURSIVE MarkAfter(_)
MarkAfter(calls) ==
    IF calls = <<>> THEN 0
    ELSE LET c == calls[Len(calls)]
         IN IF c.opt = "SO_MARK" /\ c.res = "nil" THEN c.value
            ELSE MarkAfter(SubSeq(calls, 1, Len(calls) - 1))

\* d.DialContext / listenerCfg.Listen: the hook runs on the new socket, then,
\* if the hook returned nil, the connect or the bind and listen (op) is made
SocketSetup(hook, op, opRes) ==
    IF hook.err # "nil" THEN [err |-> hook.err, calls |-> hook.calls]
    ELSE [err |-> opRes, calls |-> Append(hook.calls, Syscall(op, "none", "none", 0, opRes))]

MarkedConn(mark) == [isNil |-> FALSE, kind |-> "conn", mark |-> mark]

\* ProxiedListener{netListener: listener, mark: mark}
ProxiedListener(mark) == [isNil |-> FALSE, kind |-> "listener", mark |-> mark]

\* DialMarkedWithContext
DialMarkedWithContext ==
    \E mark \in Marks, addr \in {"10.1.2.3:443", "[2001:db8::7]:443"},
       control \in {"ok", "fail"}, nonblock \in SockErrors, markRes \in SockErrors,
       fastOpen \in SockErrors, connect \in {"nil", "ECONNREFUSED"} :
       LET hook == DialControl(control, nonblock, markRes, fastOpen, mark)
           dial == SocketSetup(hook, "connect", connect)
       IN /\ sock' = [kind |-> "dial", addr |-> addr, wanted |-> mark, hook |-> hook.err,
                      mark |-> MarkAfter(dial.calls), open |-> dial.err = "nil"]
          /\ queries' = dial.calls
          /\ accRet' = [conn |-> IF dial.err = "nil" THEN MarkedConn(mark) ELSE NilConn,
                        err |-> dial.err]
          /\ UNCHANGED <<providerVars, ctorVars, portVars, concVars>>

\* NewSocketListener
NewSocketListener ==
    \E mark \in Marks, port \in {":8080", ":8443"},
       control \in {"ok", "fail"}, markRes \in SockErrors, fastOpen \in SockErrors,
       listen \in {"nil", "EADDRINUSE"} :
       LET hook == ListenControl(control, markRes, fastOpen, mark)
           made == SocketSetup(hook, "listen", listen)
       IN /\ sock' = [kind |-> "listen", addr |-> port, wanted |-> mark, hook |-> hook.err,
                      mark |-> MarkAfter(made.calls), open |-> made.err = "nil"]
          /\ queries' = made.calls
          /\ accRet' = IF made.err # "nil"
                       THEN [conn |-> NilConn, err |-> "Failed to create listener"]
                       ELSE [conn |-> ProxiedListener(mark), err |-> "nil"]
          /\ UNCHANGED <<providerVars, ctorVars, portVars, concVars>>

InitSock ==
    /\ batchTables = {}
    /\ Fresh
    /\ PortsIdle
    /\ ctor = CustomCtor
    /\ ConnIdle
    /\ ConcIdle

NextSock ==
    \/ DialMarkedWithContext
    \/ NewSocketListener

SpecSock == InitSock /\ [][NextSock]_vars

\* ---------------------------------------------------------------- port allocator
\* (1 << 16) - 1
MaxPort == 65535

\* the most calls of Allocate and Release a run makes
MaxOps == 5

\* the arguments of New
Starts == {MaxPort - 2, MaxPort - 1}
Sizes == {1, 2}

\* what the attempt to reserve one port comes to: the port is bound and
\* listened on, or one of resolve, socket, bind, listen fails (the loop goes
\* on), or a setsockopt fails (New returns nil)
ReserveOutcomes == {"ok", "skip", "fatal"}

\* strconv.Itoa(i) for i >= 0
RECURSIVE Itoa(_)
Itoa(i) ==
    IF i < 10 THEN <<Digit[i + 1]>> ELSE Itoa(i \div 10) \o <<Digit[(i % 10) + 1]>>

\* an element of the log: a send of the loop of New, an Allocate or a Release
PortEvent(op, port, by) == [op |-> op, port |-> port, by |-> by]

\* the loop of New from the port i on, ch being the contents of the channel;
\* ok is false when New returns nil
RECURSIVE Reserve(_, _, _, _)
Reserve(i, size, ch, outcome) ==
    IF ~(Len(ch) < size) THEN [ok |-> TRUE, ch |-> ch]
    ELSE IF i > MaxPort THEN [ok |-> FALSE, ch |-> ch]
    ELSE IF outcome[i] = "skip" THEN Reserve(i + 1, size, ch, outcome)
    ELSE IF outcome[i] = "fatal" THEN [ok |-> FALSE, ch |-> ch]
    ELSE Reserve(i + 1, size, Append(ch, Itoa(i)), outcome)

\* New(start, size)
New(start, size, outcome) ==
    LET res == Reserve(start, size, <<>>, outcome)
    IN IF res.ok
       THEN [isNil |-> FALSE, allocate |-> res.ch, portNum |-> start,
             size |-> size, start |-> start]
       ELSE NoAllocator

\* the sends the loop of New made
Reserved(a) == [k \in 1 .. Len(a.allocate) |-> PortEvent("reserve", a.allocate[k], NoOne)]

\* the calls of Allocate and Release made so far
Ops(log) == Len(SelectSeq(log, LAMBDA e : e.op # "reserve"))

\* Allocate reading the port at the head of the channel without receiving it
Allocate_peek(i) ==
    /\ ~allocator.isNil
    /\ Ops(portLog) < MaxOps
    /\ allocator.allocate # <<>>
    /\ held' = [held EXCEPT ![i] = @ \cup {Head(allocator.allocate)}]
    /\ portLog' = Append(portLog, PortEvent("Allocate", Head(allocator.allocate), i))
    /\ UNCHANGED <<allocator, providerVars, ctorVars, connVars, concVars>>

\* return <-p.allocate: the receive waits while the channel is empty
Allocate(i) ==
    /\ ~allocator.isNil
    /\ Ops(portLog) < MaxOps
    /\ allocator.allocate # <<>>
    /\ allocator' = [allocator EXCEPT !.allocate = Tail(@)]
    /\ held' = [held EXCEPT ![i] = @ \cup {Head(allocator.allocate)}]
    /\ portLog' = Append(portLog, PortEvent("Allocate", Head(allocator.allocate), i))
    /\ UNCHANGED <<providerVars, ctorVars, connVars, concVars>>

\* p.allocate <- item, item being a port the caller holds: the send waits
\* while the channel is full
Release(i, item) ==
    /\ ~allocator.isNil
    /\ Ops(portLog) < MaxOps
    /\ item \in held[i]
    /\ Len(allocator.allocate) < allocator.size
    /\ allocator' = [allocator EXCEPT !.allocate = Append(@, item)]
    /\ held' = [held EXCEPT ![i] = @ \ {item}]
    /\ portLog' = Append(portLog, PortEvent("Release", item, i))
    /\ UNCHANGED <<providerVars, ctorVars, connVars, concVars>>

InitPorts ==
    /\ batchTables = {}
    /\ Fresh
    /\ ctor = CustomCtor
    /\ ConnIdle
    /\ ConcIdle
    /\ \E start \in Starts, size \in Sizes :
          \E outcome \in [start .. MaxPort -> ReserveOutcomes] :
             allocator = New(start, size, outcome)
    /\ held = [i \in Callers |-> {}]
    /\ portLog = Reserved(allocator)

NextPorts ==
    \/ \E i \in Callers : Allocate(i)
    \/ \E i \in Callers : \E item \in held[i] : Release(i, item)

SpecPorts == InitPorts /\ [][NextPorts]_vars

\* ---------------------------------------------------------------- properties
\* the step is a call of op on a table of the batch set
BatchStep(op) == call'.op = op /\ call'.table \in batchTables

\* the chain's list before and after the step
OldList == ChainOf(rules, call'.table, call'.chain)
NewList == ChainOf(rules', call'.table, call'.chain)

\* the state follows a call of op on a table of the batch set
AfterBatch(op) == call.op = op /\ call.table \in batchTables

CurList == ChainOf(rules, call.table, call.chain)

\* C1: Insert on a batch table with 2 <= pos <= L puts the rule at index pos,
\* keeps the elements 1..pos-1, moves the old elements pos..L to pos+1..L+1
\* and makes the length L+1.
C1_InsertBefore ==
    [][(BatchStep("Insert") /\ call'.pos >= 2 /\ call'.pos <= Len(OldList))
        => /\ ret'.err = "nil"
           /\ Len(NewList) = Len(OldList) + 1
           /\ \A i \in 1 .. (call'.pos - 1) : NewList[i] = OldList[i]
           /\ NewList[call'.pos] = Join(call'.rulespec)
           /\ \A i \in call'.pos .. Len(OldList) : NewList[i + 1] = OldList[i]]_vars

\* an Insert at position 2 of a list of two rules has put a different rule
\* between them
C1_Witness ==
    /\ AfterBatch("Insert") /\ call.pos = 2 /\ ret.err = "nil"
    /\ Len(CurList) = 3
    /\ CurList[2] = Join(call.rulespec)
    /\ CurList[1] # CurList[2]

\* C2: Insert(pos = 1, r) on a batch table makes r the first element, followed
\* by all previous elements in their order, whether or not the chain existed.
C2_InsertFirst ==
    [][(BatchStep("Insert") /\ call'.pos = 1)
        => /\ ret'.err = "nil"
           /\ HasKey(rules', call'.table) /\ HasKey(rules'[call'.table], call'.chain)
           /\ NewList = <<Join(call'.rulespec)>> \o OldList]_vars

\* an Insert at position 1 has put a rule in front of two others
C2_Witness ==
    /\ AfterBatch("Insert") /\ call.pos = 1 /\ ret.err = "nil"
    /\ Len(CurList) = 3
    /\ CurList[1] = Join(call.rulespec)
    /\ CurList[2] # CurList[1]

\* C3: Insert on a batch table with pos > L appends the rule as last element
\* and leaves the prior elements unchanged in order.
C3_InsertBeyond ==
    [][(BatchStep("Insert") /\ call'.pos > Len(OldList))
        => /\ ret'.err = "nil"
           /\ NewList = OldList \o <<Join(call'.rulespec)>>]_vars

\* an Insert at a position two beyond the length has appended the rule
C3_Witness ==
    /\ AfterBatch("Insert") /\ ret.err = "nil"
    /\ Len(CurList) = 2
    /\ call.pos = 3
    /\ CurList[2] = Join(call.rulespec)
    /\ CurList[1] # CurList[2]

\* C4: Delete on a batch table removes at most one element; when the chain
\* holds the rule, exactly the occurrence of lowest index goes, later
\* duplicates stay, and the others keep their relative order.
C4_DeleteFirstMatch ==
    [][BatchStep("Delete")
        => LET r == Join(call'.rulespec)
           IN /\ Len(NewList) >= Len(OldList) - 1
              /\ (\E i \in 1 .. Len(OldList) : OldList[i] = r)
                    => \E i \in 1 .. Len(OldList) :
                          /\ OldList[i] = r
                          /\ \A j \in 1 .. (i - 1) : OldList[j] # r
                          /\ NewList = SubSeq(OldList, 1, i - 1)
                                          \o SubSeq(OldList, i + 1, Len(OldList))]_vars

\* a Delete has removed the rule and a later duplicate of it is still there
C4_Witness ==
    /\ AfterBatch("Delete") /\ ret.err = "nil"
    /\ Len(CurList) = 2
    /\ CurList[1] # Join(call.rulespec)
    /\ CurList[2] = Join(call.rulespec)

\* C5: Delete on a batch table returns success and leaves the whole store
\* unchanged when the table entry, the chain entry or a matching rule is
\* missing; it creates no entry.
C5_DeleteAbsent ==
    [][(/\ BatchStep("Delete")
        /\ \/ ~HasKey(rules, call'.table)
           \/ ~HasKey(rules[call'.table], call'.chain)
           \/ \A i \in 1 .. Len(OldList) : OldList[i] # Join(call'.rulespec))
        => ret'.err = "nil" /\ rules' = rules]_vars

\* a Delete was called for a chain that has no entry in an existing table
C5_Witness ==
    /\ AfterBatch("Delete") /\ ret.err = "nil"
    /\ HasKey(rules, call.table)
    /\ ~HasKey(rules[call.table], call.chain)
    /\ DOMAIN rules[call.table] # {}

MutationOps == {"Append", "Insert", "Delete", "ClearChain", "DeleteChain", "NewChain"}

\* C6: every mutation call on a table outside the batch set is forwarded
\* exactly once to the downstream implementation with the same arguments, and
\* the store is unchanged by the call.
C6_DirectForwardedOnce ==
    [][(call'.op \in MutationOps /\ call'.table \notin batchTables)
        => /\ rules' = rules
           /\ Len(iptCalls') = 1
           /\ iptCalls'[1].op = call'.op
           /\ iptCalls'[1].table = call'.table
           /\ iptCalls'[1].chain = call'.chain
           /\ iptCalls'[1].pos = call'.pos
           /\ iptCalls'[1].rulespec = call'.rulespec]_vars

\* an Insert of a rule of two tokens went to a table outside the batch set
\* while the store held rules of a batch table
C6_Witness ==
    /\ call.op = "Insert" /\ call.table \notin batchTables
    /\ Len(call.rulespec) = 2
    /\ Len(iptCalls) = 1
    /\ batchTables # {}

\* C7: the result of a mutation call on a table outside the batch set is the
\* result of the forwarded downstream call, success or error.
C7_DirectResultVerbatim ==
    (call.op \in MutationOps /\ call.table \notin batchTables)
        => Len(iptCalls) = 1 /\ ret.err = iptCalls[1].err

\* a forwarded Delete failed downstream and the caller got the error
C7_Witness ==
    /\ call.op = "Delete" /\ call.table \notin batchTables
    /\ Len(iptCalls) = 1
    /\ iptCalls[1].err = "iptErr"
    /\ ret.err = "iptErr"

\* C8: with an empty batch set the commit function is never invoked and
\* Commit returns no error.
C8_CommitEmptyBatchSet ==
    batchTables = {}
        => /\ commitCalls = <<>>
           /\ call.op = "Commit" => ret.err = "nil"

\* Commit was called on a provider with an empty batch set
C8_Witness == batchTables = {} /\ call.op = "Commit" /\ ret.err = "nil"

\* ---- reading a commit buffer back
IsPrefix(p, s) == Len(s) >= Len(p) /\ SubSeq(s, 1, Len(p)) = p

IsSuffix(p, s) == Len(s) >= Len(p) /\ SubSeq(s, Len(s) - Len(p) + 1, Len(s)) = p

\* the index of the first occurrence of the character ch in s, 0 when absent
IndexOfChar(s, ch) ==
    IF \E i \in 1 .. Len(s) : s[i] = ch
    THEN CHOOSE i \in 1 .. Len(s) : s[i] = ch /\ \A j \in 1 .. (i - 1) : s[j] # ch
    ELSE 0

\* the lines of a buffer, each without its newline; ok is false when the
\* buffer does not end with a newline
RECURSIVE SplitLines(_)
SplitLines(buf) ==
    IF buf = <<>> THEN [ok |-> TRUE, lines |-> <<>>]
    ELSE LET n == IndexOfChar(buf, "\n")
         IN IF n = 0 THEN [ok |-> FALSE, lines |-> <<>>]
            ELSE LET rest == SplitLines(SubSeq(buf, n + 1, Len(buf)))
                 IN [ok |-> rest.ok, lines |-> <<SubSeq(buf, 1, n - 1)>> \o rest.lines]

ChainDeclSuffix == <<" ", "-", " ", "[", "0", ":", "0", "]">>
AppendPrefix == <<"-", "A", " ">>
CommitWord == <<"C", "O", "M", "M", "I", "T">>

\* the store described by the lines of the restore grammar: cur is the table
\* of the open stanza, <<>> between stanzas
RECURSIVE ReadLines(_, _, _)
ReadLines(lines, store, cur) ==
    IF lines = <<>> THEN [ok |-> cur = <<>>, store |-> store]
    ELSE LET l == Head(lines)
             rest == Tail(lines)
             bad == [ok |-> FALSE, store |-> store]
         IN IF cur = <<>>
            THEN IF IsPrefix(<<"*">>, l) /\ Len(l) > 1 /\ ~HasKey(store, Tail(l))
                 THEN ReadLines(rest, MapSet(store, Tail(l), EmptyMap), Tail(l))
                 ELSE bad
            ELSE IF l = CommitWord THEN ReadLines(rest, store, <<>>)
            ELSE IF IsPrefix(<<":">>, l) /\ IsSuffix(ChainDeclSuffix, l)
                 THEN LET c == SubSeq(l, 2, Len(l) - Len(ChainDeclSuffix))
                      IN IF HasKey(store[cur], c) THEN bad
                         ELSE ReadLines(rest, SetChain(store, cur, c, <<>>), cur)
            ELSE IF IsPrefix(AppendPrefix, l)
                 THEN LET body == SubSeq(l, Len(AppendPrefix) + 1, Len(l))
                          sp == IndexOfChar(body, " ")
                          c == SubSeq(body, 1, sp - 1)
                          r == SubSeq(body, sp + 1, Len(body))
                      IN IF sp = 0 \/ ~HasKey(store[cur], c) THEN bad
                         ELSE ReadLines(rest,
                                        SetChain(store, cur, c, Append(store[cur][c], r)),
                                        cur)
            ELSE bad

ReadBuffer(buf) ==
    LET sl == SplitLines(buf)
    IN IF sl.ok THEN ReadLines(sl.lines, EmptyMap, <<>>)
       ELSE [ok |-> FALSE, store |-> EmptyMap]

\* C9: with a non-empty batch set each Commit invokes the commit function
\* exactly once, with a buffer that describes the entire store as it stands
\* (every table, chain and rule, nothing more), and returns its outcome.
C9_CommitWholeStore ==
    (call.op = "Commit" /\ batchTables # {})
        => /\ Len(commitCalls) = 1
           /\ ReadBuffer(commitCalls[1].buf).ok
           /\ ReadBuffer(commitCalls[1].buf).store = rules
           /\ ret.err = commitCalls[1].err

\* a Commit of a store of two tables, one chain without rules, failed in the
\* commit function
C9_Witness ==
    /\ call.op = "Commit"
    /\ Len(commitCalls) = 1
    /\ ret.err = "commitErr"
    /\ DOMAIN rules = {nat, mangle}
    /\ DOMAIN rules[nat] = {PREROUTING, OUTPUT}
    /\ rules[nat][OUTPUT] = <<>>
    /\ Len(rules[nat][PREROUTING]) = 2

rule_j_DNAT == <<"-", "j", " ", "D", "N", "A", "T">>
rule_p_tcp == <<"-", "p", " ", "t", "c", "p">>

\* the buffer "*nat\n:PREROUTING - [0:0]\n-A PREROUTING -j DNAT\n-A PREROUTING -p tcp\nCOMMIT\n"
NatExampleBuffer ==
    <<"*", "n", "a", "t", "\n">>
    \o <<":", "P", "R", "E", "R", "O", "U", "T", "I", "N", "G",
         " ", "-", " ", "[", "0", ":", "0", "]", "\n">>
    \o <<"-", "A", " ", "P", "R", "E", "R", "O", "U", "T", "I", "N", "G",
         " ", "-", "j", " ", "D", "N", "A", "T", "\n">>
    \o <<"-", "A", " ", "P", "R", "E", "R", "O", "U", "T", "I", "N", "G",
         " ", "-", "p", " ", "t", "c", "p", "\n">>
    \o <<"C", "O", "M", "M", "I", "T", "\n">>

\* the text of the lines, each followed by a newline
RECURSIVE Text(_)
Text(lines) ==
    IF lines = <<>> THEN <<>> ELSE Head(lines) \o <<"\n">> \o Text(Tail(lines))

\* the lines of the stanza of the table t: those after the line '*t' up to
\* the next 'COMMIT' line
StanzaLines(buf, t) ==
    LET ls == SplitLines(buf).lines
        starts == {i \in 1 .. Len(ls) : ls[i] = <<"*">> \o t}
    IN IF starts = {} THEN <<>>
       ELSE LET b == CHOOSE i \in starts : \A j \in starts : i <= j
                e == CHOOSE i \in (b + 1) .. (Len(ls) + 1) :
                        /\ i = Len(ls) + 1 \/ ls[i] = CommitWord
                        /\ \A j \in (b + 1) .. (i - 1) : ls[j] # CommitWord
            IN SubSeq(ls, b + 1, e - 1)

\* the rules the stanza of the table t appends to the chain c, in the order
\* of the buffer
AppendedTo(buf, t, c) ==
    LET pre == AppendPrefix \o c \o <<" ">>
        ls == SelectSeq(StanzaLines(buf, t), LAMBDA l : IsPrefix(pre, l))
    IN [i \in 1 .. Len(ls) |-> SubSeq(ls[i], Len(pre) + 1, Len(ls[i]))]

\* C10: for a store of one table t with one chain c and the rules r1..rn the
\* commit buffer is exactly the lines '*t', ':c - [0:0]', '-A c r1' .. '-A c rn',
\* 'COMMIT', each followed by a newline; in general the '-A' lines of a chain
\* are in the order of the chain's list.
C10_BufferText ==
    (call.op = "Commit" /\ batchTables # {})
        => /\ Len(commitCalls) = 1
           /\ \A t \in DOMAIN rules : \A c \in DOMAIN rules[t] :
                (DOMAIN rules = {t} /\ DOMAIN rules[t] = {c})
                    => commitCalls[1].buf =
                         Text(<<(<<"*">> \o t), (<<":">> \o c \o ChainDeclSuffix)>>
                              \o [i \in 1 .. Len(rules[t][c]) |->
                                    AppendPrefix \o c \o <<" ">> \o rules[t][c][i]]
                              \o <<CommitWord>>)
           /\ rules = [t \in {nat} |-> [c \in {PREROUTING} |-> <<rule_j_DNAT, rule_p_tcp>>]]
                => commitCalls[1].buf = NatExampleBuffer
           /\ \A t \in DOMAIN rules : \A c \in DOMAIN rules[t] :
                AppendedTo(commitCalls[1].buf, t, c) = rules[t][c]

\* the store {nat: {PREROUTING: ["-j DNAT", "-p tcp"]}} was committed
C10_Witness ==
    /\ call.op = "Commit"
    /\ Len(commitCalls) = 1
    /\ rules = [t \in {nat} |-> [c \in {PREROUTING} |-> <<rule_j_DNAT, rule_p_tcp>>]]

\* ---- the reference store: table -> chain -> ordered rule list
RefInsertAt(list, pos, r) ==
    IF pos > Len(list) THEN list \o <<r>>
    ELSE SubSeq(list, 1, pos - 1) \o <<r>> \o SubSeq(list, pos, Len(list))

RefRemoveFirst(list, r) ==
    IF \A i \in 1 .. Len(list) : list[i] # r THEN list
    ELSE LET i == CHOOSE k \in 1 .. Len(list) :
                    list[k] = r /\ \A j \in 1 .. (k - 1) : list[j] # r
         IN SubSeq(list, 1, i - 1) \o SubSeq(list, i + 1, Len(list))

RefHasChain(store, t, c) == t \in DOMAIN store /\ c \in DOMAIN store[t]

RefChains(store, t) == IF t \in DOMAIN store THEN DOMAIN store[t] ELSE {}

RefList(store, t, c) == IF RefHasChain(store, t, c) THEN store[t][c] ELSE <<>>

RefWith(store, t, c, list) ==
    [x \in DOMAIN store \cup {t} |->
        IF x = t
        THEN [y \in RefChains(store, t) \cup {c} |-> IF y = c THEN list ELSE store[t][y]]
        ELSE store[x]]

RefWithout(store, t, c) ==
    [x \in DOMAIN store |->
        IF x = t THEN [y \in DOMAIN store[t] \ {c} |-> store[t][y]] ELSE store[x]]

\* the reference store after the call k
RefApply(store, k) ==
    LET t == k.table
        c == k.chain
        r == Join(k.rulespec)
    IN CASE k.op = "Append" -> RefWith(store, t, c, RefList(store, t, c) \o <<r>>)
         [] k.op = "Insert" -> RefWith(store, t, c, RefInsertAt(RefList(store, t, c), k.pos, r))
         [] k.op = "Delete" ->
                IF RefHasChain(store, t, c)
                THEN RefWith(store, t, c, RefRemoveFirst(store[t][c], r)) ELSE store
         [] k.op = "ClearChain" ->
                IF RefHasChain(store, t, c) THEN RefWith(store, t, c, <<>>) ELSE store
         [] k.op = "DeleteChain" ->
                IF t \in DOMAIN store THEN RefWithout(store, t, c) ELSE store
         [] k.op = "NewChain" -> RefWith(store, t, c, <<>>)
         [] OTHER -> store

C12_ListChainsForwarded ==
    [][call'.op = "ListChains"
        => /\ rules' = rules
           /\ Len(iptCalls') = 1
           /\ iptCalls'[1].op = "ListChains"
           /\ iptCalls'[1].table = call'.table
           /\ ret'.val = iptCalls'[1].chains
           /\ ret'.err = iptCalls'[1].err]_vars

\* ListChains on a batch table returned PREROUTING alone while the store holds
\* the chain OUTPUT of that table and not PREROUTING
C12_Witness ==
    /\ AfterBatch("ListChains")
    /\ ret.err = "nil" /\ ret.val = <<PREROUTING>>
    /\ HasKey(rules, call.table)
    /\ DOMAIN rules[call.table] = {OUTPUT}

\* C13: every mutation call on a batch table completes with success, whatever
\* the arguments (violated: Insert with pos <= 0 panics).
C13_BatchCallsSucceed ==
    (call.op \in MutationOps /\ call.table \in batchTables) => ret.err = "nil"

\* the version v is at least 1.6.2, component by component, a missing
\* component counting as 0
AtLeast162(v) ==
    LET c(i) == IF i <= Len(v) THEN v[i] ELSE 0
    IN \/ c(1) > 1
       \/ c(1) = 1 /\ c(2) > 6
       \/ c(1) = 1 /\ c(2) = 6 /\ c(3) >= 2

\* C18: the probe answers supported exactly when the tool ran, its output has
\* a version token and the first one is at least 1.6.2 as numbers.
C18_ProbeSupported ==
    ctor.hasWait # "none"
        => (ctor.hasWait = "yes"
              <=> (ctor.exec = "ok" /\ ctor.version # <<>> /\ AtLeast162(ctor.version)))

\* the probe answered supported for 1.10.0, whose text compares below 1.6.2
C18_Witness ==
    /\ ctor.kind = "probe" /\ ctor.hasWait = "yes"
    /\ ctor.version = <<1, 10, 0>>

\* the recovery of the original destination failed for the accepted connection
RecoveryFailed ==
    /\ sock.accepted
    /\ \/ ~sock.tcp
       \/ accRet.err \in {"syscallConn", "splitHostPort", "errno", "family", "control"}

\* C14: when recovery of the original destination fails for an accepted
\* connection, Accept has closed that connection and returns an error and no
\* connection.
C14_FailureClosesConnection ==
    RecoveryFailed => (~sock.open /\ accRet.conn.isNil /\ accRet.err # "nil")

\* C15: a connection returned by Accept reports, from GetOriginalDestination
\* and from LocalAddr, the destination decoded from a successful query whose
\* family tag matched; never the local address or a default.
C15_ReportsDecodedDestination ==
    ~accRet.conn.isNil =>
        /\ accRet.err = "nil"
        /\ Len(queries) = 1
        /\ LET q == queries[1]
           IN /\ q.control = "ok" /\ q.e1 = 0
              /\ q.addr.family = (IF q.v4Proto THEN AF_INET ELSE AF_INET6)
              /\ q.opt = sockOptOriginalDst
              /\ ProxiedConnection_GetOriginalDestination(accRet.conn) = <<q.dst.ip, q.dst.port>>
              /\ LocalAddr(accRet.conn) = [IP |-> q.dst.ip, Port |-> q.dst.port]
              /\ LocalAddr(accRet.conn) # [IP |-> sock.local.ip, Port |-> sock.local.port]

C15_Witness ==
    /\ ~accRet.conn.isNil
    /\ LocalAddr(accRet.conn) = [IP |-> <<10, 1, 2, 3>>, Port |-> 443]
    /\ sock.local = [ip |-> Mapped4, port |-> 8080]

\* C16: a successful query is decoded at fixed offsets: IPv4 port =
\* byte0*256+byte1 of the data and IP = the next four bytes; IPv6 port = the
\* port field read big-endian and IP = the sixteen byte field; the pair the
\* response carries is returned unchanged.
C16_DecodeOffsets ==
    \A i \in 1 .. Len(queries) :
       LET q == queries[i]
       IN q.ret.err = "nil" =>
             /\ q.ret.port \in 0 .. 65535
             /\ q.ret.ip = q.dst.ip /\ q.ret.port = q.dst.port
             /\ IF q.v4Proto
                THEN /\ q.ret.port = q.addr.data[1] * 256 + q.addr.data[2]
                     /\ q.ret.ip = <<q.addr.data[3], q.addr.data[4], q.addr.data[5],
                                     q.addr.data[6]>>
                ELSE /\ q.ret.port = q.addr.port[1] * 256 + q.addr.port[2]
                     /\ q.ret.ip = q.addr.ip /\ Len(q.ret.ip) = 16

C16_Witness ==
    /\ Len(queries) = 1
    /\ queries[1].v4Proto /\ queries[1].ret.err = "nil"
    /\ queries[1].ret.port = 8080 /\ queries[1].ret.ip = <<192, 168, 0, 255>>

\* C17: the resolver returns an error exactly when the query reports an error,
\* Control fails or the family tag is not the expected one, and then with a nil
\* IP and port 0.
C17_ResolverErrors ==
    \A i \in 1 .. Len(queries) :
       LET q == queries[i]
       IN /\ q.ret.err # "nil"
               <=> \/ q.e1 # 0
                   \/ q.control # "ok"
                   \/ q.addr.family # (IF q.v4Proto THEN AF_INET ELSE AF_INET6)
          /\ q.ret.err # "nil" => q.ret.ip = <<>> /\ q.ret.port = 0

C17_Witness ==
    /\ Len(queries) = 1
    /\ queries[1].control = "ok" /\ queries[1].e1 = 0
    /\ ~queries[1].v4Proto /\ queries[1].addr.family = AF_INET
    /\ queries[1].ret = [ip |-> <<>>, port |-> 0, err |-> "family"]

\* C19: a provider constructed while the probe answers unsupported is built
\* without error with an empty batch set whatever tables were requested; every
\* mutation is forwarded, the store stays empty and Commit does nothing.
C19_UnsupportedIsDirect ==
    (ctor.kind = "v4" /\ ctor.hasWait = "no") =>
        /\ ctor.err = "nil"
        /\ batchTables = {}
        /\ rules = EmptyMap
        /\ commitCalls = <<>>
        /\ call.op \in MutationOps =>
              /\ Len(iptCalls) = 1
              /\ iptCalls[1].op = call.op /\ iptCalls[1].table = call.table
              /\ iptCalls[1].chain = call.chain /\ iptCalls[1].rulespec = call.rulespec
              /\ ret.err = iptCalls[1].err
        /\ call.op = "Commit" => (iptCalls = <<>> /\ ret.err = "nil")

C19_Witness ==
    /\ ctor.kind = "v4" /\ ctor.hasWait = "no" /\ ctor.exec = "ok"
    /\ ctor.requested = <<nat, mangle>>
    /\ call.op = "Insert" /\ call.table = nat
    /\ Len(iptCalls) = 1 /\ rules = EmptyMap

\* the stores that the calls of a and b leave when made one at a time from r,
\* in every order that keeps the order of a and the order of b
RECURSIVE Sequential(_, _, _)
Sequential(r, a, b) ==
    IF a = <<>> /\ b = <<>> THEN {r}
    ELSE (IF a = <<>> THEN {} ELSE Sequential(StoreAfter(r, Head(a)), Tail(a), b))
         \cup (IF b = <<>> THEN {} ELSE Sequential(StoreAfter(r, Head(b)), a, Tail(b)))

AllDone == pc # <<>> /\ \A i \in Callers : pc[i].at = "done"

\* C20: whatever the interleaving of the callers, the store they leave is a
\* store that their calls leave in some one-at-a-time order that keeps each
\* caller's own order.
C20_Serializable ==
    AllDone => rules \in Sequential(EmptyMap, progs[1], progs[2])

\* both callers are done, the second one's call came first, and the store is
\* not the one of the order "first caller, then second caller"
C20_Witness ==
    /\ AllDone
    /\ Len(progs[1]) = 2 /\ progs[1][1].op = "Append" /\ progs[1][2].op = "Insert"
    /\ Len(progs[2]) = 1 /\ progs[2][1].op = "DeleteChain"
    /\ rules = [t \in {nat} |-> [c \in {PREROUTING} |-> <<rule_p_tcp, rule_j_DNAT>>]]

\* the stores left by the first k calls of prog made one after the other from
\* the empty store, k = 0 .. Len(prog)
RECURSIVE StoreOf(_)
StoreOf(prog) ==
    IF prog = <<>> THEN EmptyMap
    ELSE StoreAfter(StoreOf(SubSeq(prog, 1, Len(prog) - 1)), prog[Len(prog)])

WholeCallStores(prog) == {StoreOf(SubSeq(prog, 1, k)) : k \in 0 .. Len(prog)}

\* the caller i is in Commit, at where
Committing(i, where) ==
    pc # <<>> /\ progs[i][pc[i].k] = CommitCall /\ pc[i].at = where

\* C21: the buffer Commit hands to the commit function is the serialization
\* of one store that existed between two whole mutation calls, and the store
\* is still that one until the commit function has returned.
C21_CommitSnapshot ==
    \A i \in DOMAIN pc :
       /\ Committing(i, "invoke") =>
             /\ tmp[i] \in createDataBuffer(rules)
             /\ rules \in WholeCallStores(progs[1])
       /\ Committing(i, "unlock") =>
             /\ Len(commitCalls) = 1
             /\ commitCalls[1].buf \in createDataBuffer(rules)
             /\ rules \in WholeCallStores(progs[1])

\* the commit function has been given the store between the first caller's
\* Append and its Insert
C21_Witness ==
    /\ Committing(2, "unlock")
    /\ Len(progs[1]) = 2 /\ progs[1][1].op = "Append" /\ progs[1][2].op = "Insert"
    /\ pc[1] = [k |-> 2, at |-> "lock"]
    /\ commitCalls[1].buf = TableLine(nat) \o ChainLine(PREROUTING)
                               \o RuleLine(PREROUTING, rule_j_DNAT) \o CommitLine

\* the index in queries of the connect or of the listen, 0 when there is none
SetupIndex ==
    IF \E i \in 1 .. Len(queries) : queries[i].name \in {"connect", "listen"}
    THEN CHOOSE i \in 1 .. Len(queries) : queries[i].name \in {"connect", "listen"}
    ELSE 0

\* C22: a connection or listener returned without error has the caller's Mark
\* on its socket, set in the control hook before the connect or the bind.
C22_ReturnedSocketMarked ==
    (accRet.err = "nil" /\ ~accRet.conn.isNil /\ accRet.conn.kind \in {"conn", "listener"})
        => /\ sock.mark = sock.wanted
           /\ \E i \in 1 .. Len(queries) :
                 /\ queries[i].opt = "SO_MARK" /\ queries[i].value = sock.wanted
                 /\ queries[i].res = "nil"
                 /\ i < SetupIndex

\* some option call made by the control hook failed
OptionFailed ==
    \E i \in 1 .. Len(queries) :
       queries[i].name \in {"SetNonblock", "SetsockoptInt"} /\ queries[i].res # "nil"

\* C23: a failed fast-open option on either path, or a failed Mark on the dial
\* path, is not returned: the hook that made the calls reports success, and
\* Dial or Listen returns an error only when the connect or the listen failed
\* (or the hook could not run on the descriptor at all).
C23_OptionFailuresSwallowed ==
    accRet.err # "none"
        => /\ Len(queries) > 0 => sock.hook = "nil"
           /\ accRet.err # "nil"
                 <=> \/ sock.hook = "control"
                     \/ /\ SetupIndex > 0
                        /\ queries[SetupIndex].res # "nil"

\* Dial returned a connection although the Mark and the fast-open option failed
C23_Witness ==
    /\ accRet.err = "nil" /\ ~accRet.conn.isNil /\ accRet.conn.kind = "conn"
    /\ \E i \in 1 .. Len(queries) : queries[i].opt = "SO_MARK" /\ queries[i].res = "EPERM"
    /\ \E i \in 1 .. Len(queries) : queries[i].opt = "30" /\ queries[i].res = "EPERM"
    /\ OptionFailed

\* C24: Commit never changes the store, whether the commit function fails or
\* succeeds, so a Commit that follows a Commit passes the same content; a
\* failure of the commit function is returned, and the function is invoked
\* once at most.
C24_CommitKeepsStore ==
    [][call'.op = "Commit"
        => /\ rules' = rules
           /\ Len(commitCalls') <= 1
           /\ Len(commitCalls') = 1 => ret'.err = commitCalls'[1].err
           /\ (call.op = "Commit" /\ batchTables # {})
                 => /\ Len(commitCalls') = 1
                    /\ ReadBuffer(commitCalls'[1].buf).store
                          = ReadBuffer(commitCalls[1].buf).store]_vars

\* a Commit of a store with two rules in one chain has succeeded, and the
\* rules are still stored
C24_Witness ==
    /\ call.op = "Commit" /\ ret.err = "nil"
    /\ Len(commitCalls) = 1
    /\ HasKey(rules, nat) /\ HasKey(rules[nat], PREROUTING)
    /\ rules[nat][PREROUTING] = <<rule_j_DNAT, rule_p_tcp>>

\* C25: NewChain on a batch table leaves the chain present with an empty rule
\* list, creating the table and chain entries that are missing, and succeeds;
\* a NewChain that follows the same NewChain leaves the store as it was.
C25_NewChainIdempotent ==
    [][BatchStep("NewChain")
        => /\ ret'.err = "nil"
           /\ HasKey(rules', call'.table) /\ HasKey(rules'[call'.table], call'.chain)
           /\ rules'[call'.table][call'.chain] = <<>>
           /\ call = call' => rules' = rules]_vars

\* NewChain has made the only table and the only chain of the store
C25_Witness ==
    /\ AfterBatch("NewChain") /\ ret.err = "nil"
    /\ rules = [t \in {mangle} |-> [c \in {PREROUTING} |-> <<>>]]

\* every element of a is in b, in the same order
RECURSIVE IsSubseq(_, _)
IsSubseq(a, b) ==
    IF a = <<>> THEN TRUE
    ELSE IF b = <<>> THEN FALSE
    ELSE IF Head(a) = Head(b) THEN IsSubseq(Tail(a), Tail(b))
    ELSE IsSubseq(a, Tail(b))

\* C26: Append, Insert, NewChain, ListChains, RetrieveTable and Commit keep
\* every stored rule in its chain, in the same order relative to the other
\* rules; Delete, ClearChain and DeleteChain keep the rules of the other chains.
C26_RulesPersist ==
    [][\A t \in DOMAIN rules : \A c \in DOMAIN rules[t] :
          (\/ call'.op \in {"Append", "Insert", "NewChain", "ListChains", "RetrieveTable",
                            "Commit"}
           \/ call'.table # t \/ call'.chain # c)
             => /\ HasKey(rules', t) /\ HasKey(rules'[t], c)
                /\ IsSubseq(rules[t][c], rules'[t][c])]_vars

\* the chain of the call was in the store before the step
WasPresent == HasKey(rules, call'.table) /\ HasKey(rules[call'.table], call'.chain)

\* C27: ClearChain on a batch table succeeds; an existing chain stays, with an
\* empty rule list; with the table or the chain missing nothing changes, the
\* chain is not created.
C27_ClearChain ==
    [][BatchStep("ClearChain")
        => /\ ret'.err = "nil"
           /\ IF WasPresent
              THEN /\ HasKey(rules', call'.table)
                   /\ HasKey(rules'[call'.table], call'.chain)
                   /\ rules'[call'.table][call'.chain] = <<>>
                   /\ DOMAIN rules'[call'.table] = DOMAIN rules[call'.table]
              ELSE rules' = rules]_vars

\* ClearChain has emptied one of the two chains of the table
C27_Witness ==
    /\ AfterBatch("ClearChain") /\ ret.err = "nil"
    /\ rules = [t \in {nat} |-> [c \in {PREROUTING, OUTPUT} |->
                                    IF c = call.chain THEN <<>> ELSE <<rule_p_tcp>>]]

\* the lines of the stanza of t in buf that declare the chain c or append to it
LinesOfChain(buf, t, c) ==
    SelectSeq(StanzaLines(buf, t),
              LAMBDA l : l = <<":">> \o c \o ChainDeclSuffix
                         \/ IsPrefix(AppendPrefix \o c \o <<" ">>, l))

\* C28: DeleteChain on a batch table succeeds and removes the entry of the
\* chain with its rules: the chain is not in the store RetrieveTable returns
\* and the next commit buffer has no ':c' line and no '-A c' line in the
\* stanza of the table; with the table or the chain missing nothing changes.
C28_DeleteChain ==
    [][BatchStep("DeleteChain")
        => /\ ret'.err = "nil"
           /\ ~(HasKey(rules', call'.table) /\ HasKey(rules'[call'.table], call'.chain))
           /\ \A buf \in createDataBuffer(rules') :
                 LinesOfChain(buf, call'.table, call'.chain) = <<>>
           /\ ~WasPresent => rules' = rules]_vars

\* DeleteChain has removed the last chain of a table, next to a table that
\* still has a chain of the same name
C28_Witness ==
    /\ AfterBatch("DeleteChain") /\ ret.err = "nil"
    /\ rules = [t \in {nat, mangle} |->
                   IF t = call.table THEN EmptyMap ELSE [c \in {call.chain} |-> <<rule_j_DNAT>>]]

\* the tables handed to NewCustomBatchProvider
RequestedTables == {ctor.requested[i] : i \in 1 .. Len(ctor.requested)}

\* C29: the batch set is the one fixed at construction, whatever operations
\* have been called since, and every mutation is routed by it: forwarded
\* exactly when its table is outside the set.
C29_BatchSetFixed ==
    ctor.kind = "custom" =>
        /\ batchTables = RequestedTables
        /\ (call.op \in MutationOps /\ ret.err # "panic")
              => (call.table \in RequestedTables <=> iptCalls = <<>>)

\* with rules stored for the batch table, a call on the other table is still
\* forwarded
C29_Witness ==
    /\ ctor.requested = <<nat>> /\ batchTables = {nat}
    /\ HasKey(rules, nat) /\ HasKey(rules[nat], OUTPUT) /\ Len(rules[nat][OUTPUT]) = 2
    /\ call.op = "Append" /\ call.table = mangle
    /\ Len(iptCalls) = 1

\* C30: an accept issues one kernel query at most, and only once the family
\* has been determined from the local address (the IPv4 query exactly for an
\* IPv4 local address); it ends in exactly one of Decoded and Rejected, and in
\* Decoded only after a query that succeeded.
C30_AcceptStateMachine ==
    /\ sock.phase \in {"Idle", "Accepted", "FamilyDetermined", "QueryIssued", "Decoded",
                       "Rejected"}
    /\ Len(queries) <= 1
    /\ queries # <<>> =>
          /\ sock.phase \in {"QueryIssued", "Decoded", "Rejected"}
          /\ sock.family # "unknown"
          /\ queries[1].opt = sockOptOriginalDst
          /\ queries[1].level = SOL_IP <=> IsV4(sock.local.ip)
          /\ queries[1].level = SOL_IPV6 <=> ~IsV4(sock.local.ip)
    /\ sock.phase = "QueryIssued" => queries # <<>>
    /\ sock.phase \in {"Accepted", "FamilyDetermined", "QueryIssued"} => accRet = NoAccept
    /\ sock.phase = "Decoded" =>
          /\ queries # <<>> /\ queries[1].e1 = 0 /\ queries[1].ret.err = "nil"
          /\ accRet.err = "nil" /\ ~accRet.conn.isNil
    /\ sock.phase = "Rejected" => (accRet.err \notin {"nil", "none"} /\ accRet.conn.isNil)

\* an accept on an IPv6 local address has ended in Decoded after its query
C30_Witness ==
    /\ sock.phase = "Decoded" /\ sock.family = "v6"
    /\ Len(queries) = 1 /\ queries[1].level = SOL_IPV6
    /\ accRet.conn.originalPort = 443
\* ---- rule identity
\* the text of a rule specification written out: the tokens with one space
\* between two neighbours
JoinedText(rulespec) ==
    IF rulespec = <<tok_j, tok_DNAT>> THEN rule_j_DNAT ELSE rule_p_tcp

\* the number of elements of list equal to x
Count(list, x) == Cardinality({i \in 1 .. Len(list) : list[i] = x})

\* C31: a rule is identified by its tokens joined with single spaces: Append
\* and Insert on a batch table store the joined string (once more than
\* before, so duplicates are kept), and Delete removes one occurrence exactly
\* when the joined string equals a stored string, however the tokens were
\* split; it leaves the list alone otherwise.
C31_JoinedIdentity ==
    [][/\ BatchStep("Append")
            => NewList = Append(OldList, JoinedText(call'.rulespec))
       /\ (BatchStep("Insert") /\ ret'.err = "nil")
            => /\ Len(NewList) = Len(OldList) + 1
               /\ Count(NewList, JoinedText(call'.rulespec))
                    = Count(OldList, JoinedText(call'.rulespec)) + 1
       /\ BatchStep("Delete")
            => IF Count(OldList, JoinedText(call'.rulespec)) > 0
               THEN /\ Len(NewList) = Len(OldList) - 1
                    /\ Count(NewList, JoinedText(call'.rulespec))
                         = Count(OldList, JoinedText(call'.rulespec)) - 1
               ELSE NewList = OldList]_vars

\* a rule given as the two tokens '-p', 'tcp' was appended to a chain that
\* held the same rule already
C31_Witness ==
    /\ AfterBatch("Append")
    /\ call.rulespec = <<tok_p, tok_tcp>>
    /\ CurList = <<rule_p_tcp, rule_p_tcp>>

\* ---- the shape of a stanza
\* the indices of the lines of ls that start with p
Starting(ls, p) == {i \in 1 .. Len(ls) : IsPrefix(p, ls[i])}

\* C32: the commit buffer has exactly one stanza per table entry of the store:
\* the line '*table', one ':chain - [0:0]' line per chain entry (empty chains
\* too), then the '-A' lines, then 'COMMIT'; within a stanza every chain
\* declaration precedes every '-A' line, and a table left without chains
\* still yields a stanza, with no chain lines.
C32_StanzaShape ==
    (call.op = "Commit" /\ batchTables # {} /\ Len(commitCalls) = 1)
        => LET buf == commitCalls[1].buf
               ls == SplitLines(buf).lines
           IN /\ SplitLines(buf).ok
              /\ Cardinality(Starting(ls, <<"*">>)) = Cardinality(DOMAIN rules)
              /\ Cardinality({i \in 1 .. Len(ls) : ls[i] = CommitWord})
                    = Cardinality(DOMAIN rules)
              /\ DOMAIN rules # {} => ls[Len(ls)] = CommitWord
              /\ \A t \in DOMAIN rules :
                    LET st == StanzaLines(buf, t)
                    IN /\ Cardinality({i \in 1 .. Len(ls) : ls[i] = <<"*">> \o t}) = 1
                       /\ Cardinality(Starting(st, <<":">>))
                            = Cardinality(DOMAIN rules[t])
                       /\ \A c \in DOMAIN rules[t] :
                            Cardinality({i \in 1 .. Len(st) :
                                            st[i] = <<":">> \o c \o ChainDeclSuffix}) = 1
                       /\ Cardinality(Starting(st, AppendPrefix))
                            = SumLen(rules[t], DOMAIN rules[t])
                       /\ Len(st) = Cardinality(Starting(st, <<":">>))
                                      + Cardinality(Starting(st, AppendPrefix))
                       /\ \A i \in Starting(st, <<":">>) :
                            \A j \in Starting(st, AppendPrefix) : i < j

\* a Commit serialized a table whose chains had all been removed, next to a
\* table holding a rule
C32_Witness ==
    /\ call.op = "Commit"
    /\ Len(commitCalls) = 1
    /\ DOMAIN rules = {nat, mangle}
    /\ rules[nat] = EmptyMap
    /\ TotalRules(rules, DOMAIN rules) > 0

\* C33: every table key of the store is a member of the batch set.
C33_StoreTablesInBatchSet == DOMAIN rules \subseteq batchTables

\* an Append on a table outside the batch set was forwarded while the store
\* held a table of the batch set
C33_Witness ==
    /\ call.op = "Append"
    /\ call.table = mangle
    /\ batchTables = {nat}
    /\ DOMAIN rules = {nat}
    /\ Len(iptCalls) = 1

\* C34: a mutation on the chain c of the batch table t leaves every other
\* chain and every other table as it was; Append and Insert make the list of
\* c one longer, Delete makes it one shorter when the rule is in it and
\* leaves its length alone otherwise.
C34_Frame ==
    [][(call'.op \in MutationOps /\ call'.table \in batchTables)
        => /\ \A t \in DOMAIN rules : \A c \in DOMAIN rules[t] :
                <<t, c>> # <<call'.table, call'.chain>>
                    => /\ HasKey(rules', t)
                       /\ HasKey(rules'[t], c)
                       /\ rules'[t][c] = rules[t][c]
           /\ \A t \in DOMAIN rules' : \A c \in DOMAIN rules'[t] :
                <<t, c>> # <<call'.table, call'.chain>>
                    => HasKey(rules, t) /\ HasKey(rules[t], c)
           /\ \A t \in (DOMAIN rules') \ {call'.table} : HasKey(rules, t)
           /\ call'.op \in {"Append", "Insert"} => Len(NewList) = Len(OldList) + 1
           /\ call'.op = "Delete"
                => Len(NewList) = IF \E i \in 1 .. Len(OldList) :
                                        OldList[i] = Join(call'.rulespec)
                                  THEN Len(OldList) - 1
                                  ELSE Len(OldList)]_vars

\* a rule was inserted into a chain while another chain of the table and a
\* chain of another table held rules
C34_Witness ==
    /\ AfterBatch("Insert")
    /\ call.table = nat
    /\ call.chain = PREROUTING
    /\ batchTables = {nat, mangle}
    /\ ChainOf(rules, nat, OUTPUT) # <<>>
    /\ ChainOf(rules, mangle, PREROUTING) # <<>>
    /\ Len(CurList) = 1

\* ---- calls undoing each other
\* the list of the chain after the calls of the sequence cs on the store r
RECURSIVE AfterCalls(_, _)
AfterCalls(r, cs) ==
    IF cs = <<>> THEN r ELSE AfterCalls(StoreAfter(r, Head(cs)), Tail(cs))

\* the rule is not in the chain's list
Absent(r, tc, rs) ==
    \A i \in 1 .. Len(ChainOf(r, tc[1], tc[2])) : ChainOf(r, tc[1], tc[2])[i] # Join(rs)

\* C37: for a chain of a batch table that does not hold the rule r, Append(r)
\* followed by Delete(r) leaves the chain's list as it was, and so does
\* Insert(pos, r) followed by Delete(r) for every pos >= 1; for a chain of
\* length L, Insert(L+1, r) leaves the list Append(r) leaves.
C37_Undo ==
    \A tc \in Targets : \A rs \in RuleSpecs :
        (tc[1] \in batchTables /\ Absent(rules, tc, rs))
            => LET list == ChainOf(rules, tc[1], tc[2])
                   app == Call("Append", tc[1], tc[2], 0, rs)
                   del == Call("Delete", tc[1], tc[2], 0, rs)
                   ins(pos) == Call("Insert", tc[1], tc[2], pos, rs)
               IN /\ ChainOf(AfterCalls(rules, <<app, del>>), tc[1], tc[2]) = list
                  /\ \A pos \in 1 .. (MaxRules + 2) :
                        /\ InsertRule(list, pos, Join(rs)).err = "nil"
                        /\ ChainOf(AfterCalls(rules, <<ins(pos), del>>), tc[1], tc[2]) = list
                  /\ ChainOf(StoreAfter(rules, ins(Len(list) + 1)), tc[1], tc[2])
                        = ChainOf(StoreAfter(rules, app), tc[1], tc[2])
                  /\ ChainOf(StoreAfter(rules, app), tc[1], tc[2]) = Append(list, Join(rs))

\* a chain of a batch table holds two rules and not the rule '-p tcp', after
\* a Delete of that rule
C37_Witness ==
    /\ AfterBatch("Delete")
    /\ call.rulespec = <<tok_p, tok_tcp>>
    /\ CurList = <<rule_j_DNAT, rule_j_DNAT>>
    /\ Absent(rules, <<call.table, call.chain>>, call.rulespec)

\* ---- the value RetrieveTable returns
\* the caller i has read the map RetrieveTable handed it
Used(i) == pc # <<>> /\ pc[i].at = "used"

\* C35: the value RetrieveTable returned is a snapshot of the store at the
\* time of the call: what its holder reads from it later is what the store
\* held when the call returned, whatever mutations were made since, and the
\* read does not touch the store's data outside the mutex.
C35_ReturnedIsSnapshot ==
    \A i \in Callers :
        Used(i) => /\ ~tmp[i].fault
                   /\ tmp[i].val = ret.val

\* ---- serializing twice
\* C36: serialization is deterministic: the buffer restore serializes again
\* for the log after the tool has failed is, the store being unchanged, the
\* buffer that was given to the tool, line for line.
C36_SameBufferAgain ==
    \A i \in 1 .. Len(commitCalls) :
        commitCalls[i].logged => commitCalls[i].again = commitCalls[i].buf

\* ---- calls return
\* the caller i is entering its k-th call
Entering(i, k) == pc # <<>> /\ pc[i].k = k /\ pc[i].at = "lock"

\* the k-th call of the caller i has returned and the caller does not hold
\* the mutex
ReturnedUnlocked(i, k) ==
    /\ pc # <<>>
    /\ pc[i].k > k \/ pc[i].at = "done"
    /\ lock # i

\* C38: the calls of the downstream implementation and of the commit function
\* returning and the callers being scheduled fairly, every call a caller
\* enters returns in the end with the mutex released, whichever path it takes
\* (the early return for a table outside the batch set, the early return on a
\* missing entry, an error of the commit function): no caller waits for the
\* mutex forever.
C38_CallsReturnUnlocked ==
    \A i \in Callers : \A k \in 1 .. (MaxCalls + 1) :
        Entering(i, k) ~> ReturnedUnlocked(i, k)

\* both callers are done and the mutex is free, the last call to return
\* being a Commit whose commit function failed, after a call on a table
\* outside the batch set and a Delete that found no entry
C38_Witness ==
    /\ AllDone
    /\ lock = NoOne
    /\ call = CommitCall
    /\ ret.err = "commitErr"
    /\ rules = EmptyMap
    /\ progs[1] = <<Call("Append", mangle, PREROUTING, 0, <<tok_j, tok_DNAT>>), CommitCall>>
    /\ progs[2] = <<Call("Delete", nat, PREROUTING, 0, <<tok_j, tok_DNAT>>)>>

\* ---- the port allocator
\* the ports of the events of the log whose op is in ops, in their order
PortsOf(log, ops) ==
    LET es == SelectSeq(log, LAMBDA e : e.op \in ops)
    IN [k \in 1 .. Len(es) |-> es[k].port]

\* the ports New reserved
ReservedPorts(log) == {log[k].port : k \in {n \in 1 .. Len(log) : log[n].op = "reserve"}}

\* the decimal numerals of the ports from the first start to the last port
PortNumerals ==
    {<<"6", "5", "5", "3", "3">>, <<"6", "5", "5", "3", "4">>, <<"6", "5", "5", "3", "5">>}

\* C39: the callers releasing only ports they were allocated and still hold,
\* no port is held by two callers at once, every port Allocate returned is a
\* port New reserved, the ports come out of Allocate in the order in which
\* they were reserved and released (first in, first out), and Allocate never
\* returns with an empty or duplicate port: with every port held there is
\* nothing it can return.
C39_PortsSafe ==
    (portLog # <<>> /\ ~allocator.isNil)
        => /\ \A i \in Callers : \A j \in Callers \ {i} : held[i] \cap held[j] = {}
           /\ \A i \in Callers : held[i] \subseteq ReservedPorts(portLog)
           /\ \A k \in 1 .. Len(portLog) :
                portLog[k].op = "Allocate"
                    => /\ portLog[k].port \in ReservedPorts(portLog)
                       /\ portLog[k].port \in PortNumerals
           /\ IsPrefix(PortsOf(portLog, {"Allocate"}), PortsOf(portLog, {"reserve", "Release"}))
           /\ Cardinality(ReservedPorts(portLog)) = allocator.size
           /\ Len(allocator.allocate) + Cardinality(UNION {held[i] : i \in Callers})
                = allocator.size
           /\ \A m \in 1 .. Len(allocator.allocate) :
                /\ \A i \in Callers : allocator.allocate[m] \notin held[i]
                /\ \A n \in 1 .. Len(allocator.allocate) :
                      allocator.allocate[m] = allocator.allocate[n] => m = n

\* both reserved ports are held, one by each caller, the first of them for
\* the second time after a Release: nothing is left for Allocate to return
C39_Witness ==
    /\ ~allocator.isNil
    /\ allocator.size = 2
    /\ allocator.allocate = <<>>
    /\ held[1] # {}
    /\ held[2] # {}
    /\ PortsOf(portLog, {"Release"}) # <<>>
    /\ Len(PortsOf(portLog, {"Allocate"})) = 3
====
